---- MODULE Spec2Model ----
(***************************************************************************)
(* Model of the VulkanApp life cycle (src/vulkan_app.cpp): initVulkan,     *)
(* mainLoop / drawFrame, cleanup, together with the GPU graphics queue and *)
(* the presentation engine that execute the work drawFrame hands to them.  *)
(* The CPU thread is the pc; the GPU and the presentation engine run       *)
(* asynchronously and are ordered only by the fence and two semaphores.    *)
(***************************************************************************)
EXTENDS Integers, Sequences, FiniteSets, TLC

\* ------------------------------------------------------------------ bounds

\* Largest number of main-loop iterations explored.
MaxFrames == 3
\* Largest VkSurfaceCapabilitiesKHR::minImageCount explored.
MaxMinImageCount == 2

\* Largest number of physical devices vkEnumeratePhysicalDevices reports.
MaxDevices == 2
\* Largest number of queue families a physical device reports.
MaxFamilies == 2
\* Largest number of surface formats a device reports for the surface.
MaxFormats == 2
\* Largest number of present modes a device reports for the surface.
MaxPresentModes == 2
\* Largest width or height of an extent other than the all-bits-set one.
MaxExtent == 2

\* ------------------------------------------------------- program constants

\* vulkan_app.h: const bool enableValidationLayers_ = true
enableValidationLayers_ == TRUE

VK_SUCCESS == "VK_SUCCESS"
VK_SUBOPTIMAL_KHR == "VK_SUBOPTIMAL_KHR"
VK_ERROR_OUT_OF_DATE_KHR == "VK_ERROR_OUT_OF_DATE_KHR"
VK_ERROR_DEVICE_LOST == "VK_ERROR_DEVICE_LOST"
VK_ERROR_EXTENSION_NOT_PRESENT == "VK_ERROR_EXTENSION_NOT_PRESENT"
\* no call made yet in this frame
NoResult == "none"

\* Results the three per-frame calls can return.
AcquireResults == {VK_SUCCESS, VK_SUBOPTIMAL_KHR, VK_ERROR_OUT_OF_DATE_KHR}
SubmitResults == {VK_SUCCESS, VK_ERROR_DEVICE_LOST}
PresentResults == {VK_SUCCESS, VK_ERROR_OUT_OF_DATE_KHR}

\* vulkan_app.h: VkPhysicalDevice physicalDevice_ = VK_NULL_HANDLE
VK_NULL_HANDLE == 0

\* std::numeric_limits<uint32_t>::max(): the greatest value of the unsigned
\* range, which here ends one above the extents explored.
UINT32_MAX == MaxExtent + 1

\* what() of the exceptions the setup raises itself
NoDeviceError == "Failed to find GPUs with Vulkan support"
NoSuitableDeviceError == "Failed to find suitable GPU"
NoAcceptableFormatError == "No valid swap surface format"
\* nothing raised
NoError == "none"

VK_KHR_SWAPCHAIN_EXTENSION_NAME == "VK_KHR_swapchain"
\* vulkan_app.h: deviceExts_
deviceExts_ == {VK_KHR_SWAPCHAIN_EXTENSION_NAME}

VK_FORMAT_B8G8R8A8_SRGB == "VK_FORMAT_B8G8R8A8_SRGB"
VK_FORMAT_B8G8R8A8_UNORM == "VK_FORMAT_B8G8R8A8_UNORM"
VK_COLOR_SPACE_SRGB_NONLINEAR_KHR == "VK_COLOR_SPACE_SRGB_NONLINEAR_KHR"
VK_COLOR_SPACE_EXTENDED_SRGB_LINEAR_EXT == "VK_COLOR_SPACE_EXTENDED_SRGB_LINEAR_EXT"
VK_PRESENT_MODE_IMMEDIATE_KHR == "VK_PRESENT_MODE_IMMEDIATE_KHR"
VK_PRESENT_MODE_MAILBOX_KHR == "VK_PRESENT_MODE_MAILBOX_KHR"
VK_PRESENT_MODE_FIFO_KHR == "VK_PRESENT_MODE_FIFO_KHR"
VK_SHARING_MODE_EXCLUSIVE == "VK_SHARING_MODE_EXCLUSIVE"
VK_SHARING_MODE_CONCURRENT == "VK_SHARING_MODE_CONCURRENT"
VK_PHYSICAL_DEVICE_TYPE_DISCRETE_GPU == "VK_PHYSICAL_DEVICE_TYPE_DISCRETE_GPU"
VK_PHYSICAL_DEVICE_TYPE_INTEGRATED_GPU == "VK_PHYSICAL_DEVICE_TYPE_INTEGRATED_GPU"

\* no queue handle fetched yet
NoQueues == [graphics |-> {}, present |-> {}]
\* VkSwapchainCreateInfoKHR createInfo{}, with the locals surfaceFormat and
\* presentMode that createSwapChain copies into it
NoCreateInfo ==
  [imageFormat |-> "unset", imageColorSpace |-> "unset",
   presentMode |-> "unset", imageExtent |-> [width |-> 0, height |-> 0],
   minImageCount |-> 0, imageSharingMode |-> "unset",
   queueFamilyIndexCount |-> 0, pQueueFamilyIndices |-> << >>]
\* no helper call made by the current step
NoCall == [fn |-> "none"]

VARIABLES
  pc,                 \* position of the CPU thread in run()
  step,               \* index of the next call inside initVulkan / cleanup
  swapChain_,         \* image count the swapchain was created with (0 = none)
  swapChainImages_,   \* number of images retrieved from the swapchain
  created,            \* objects created so far, in creation order
  destroyed,          \* objects destroyed so far, in destruction order
  frame,              \* number of the current main-loop iteration (0 = none yet)
  inFlightFence_,     \* TRUE = signaled
  imageAvailableSemaphore_,  \* 0 = unsignaled, f = signaled by the acquire of frame f
  renderFinishedSemaphore_,  \* 0 = unsignaled, f = signaled by the submit of frame f
  acquirePending,     \* frame whose acquire still owes the semaphore signal, or 0
  imageIndex,         \* drawFrame's local imageIndex
  commandBuffer_,     \* state of the command buffer and the framebuffer recorded
  graphicsQueue_,     \* submitted batches not yet complete, in submission order
  presentQueue_,      \* present requests whose semaphore wait is not yet done
  imageState,         \* per swapchain image: free, or acquired / queued and
                      \* the frame whose acquire handed it out
  res,                \* results of this frame's acquire, submit and present
  anyFailure,         \* some backend call has returned a non-success result
  log,                \* the calls the CPU thread has made, in order
  gpuHistory,         \* what the GPU and the presentation engine have done
  \* device and swapchain setup, followed call by call under SetupSpec
  at,                 \* position inside the current call of initVulkan
  physicalDevice_,    \* 0 = VK_NULL_HANDLE, i = the i-th enumerated device
  deviceCount,        \* pickPhysicalDevice: number of devices enumerated
  suitability,        \* pickPhysicalDevice: isDeviceSuitable results so far
  queueFamilies,      \* queue families of the device physicalDevice_ names,
                      \* as far as findQueueFamilies reads them
  queueCreateInfos,   \* createLogicalDevice: queueFamilyIndex of each request
  queues,             \* retrieveQueues: family each queue handle was fetched from
  createInfo,         \* createSwapChain: the VkSwapchainCreateInfoKHR being filled
  call,               \* the last helper call: its name, arguments and result
  error,              \* what() of the std::runtime_error raised, if any
  swapChainExtent_,        \* the extent createSwapChain chose
  swapChainImageViews_,    \* per view: the swapchain image it is a view of
  swapChainFramebuffers_,  \* per framebuffer: its attachments and dimensions
  suitableIndices,         \* what findQueueFamilies returned inside the
                           \* isDeviceSuitable call that picked the device
  commandPool_             \* the queue family the command pool was created for

vars == <<pc, step, swapChain_, swapChainImages_, created, destroyed, frame,
          inFlightFence_, imageAvailableSemaphore_, renderFinishedSemaphore_,
          acquirePending, imageIndex, commandBuffer_, graphicsQueue_,
          presentQueue_, imageState, res, anyFailure, log, gpuHistory,
          at, physicalDevice_, deviceCount, suitability, queueFamilies,
          queueCreateInfos, queues, createInfo, call, error,
          swapChainExtent_, swapChainImageViews_, swapChainFramebuffers_,
          suitableIndices, commandPool_>>

setupState == <<at, physicalDevice_, deviceCount, suitability, queueFamilies,
                queueCreateInfos, queues, createInfo, error,
                swapChainExtent_, swapChainImageViews_, swapChainFramebuffers_,
                suitableIndices, commandPool_>>

setupVars == <<setupState, call>>

\* ---------------------------------------------------------------- helpers

Obj(kind, i) == <<kind, i>>

RECURSIVE ObjList(_, _)
\* the objects kind[0] .. kind[n-1], in index order (the for loops over a vector)
ObjList(kind, n) ==
  IF n = 0 THEN <<>> ELSE Append(ObjList(kind, n - 1), Obj(kind, n - 1))

Range(s) == {s[i] : i \in 1..Len(s)}

Pos(s, x) == CHOOSE i \in 1..Len(s) : s[i] = x

NoResults == [acquire |-> NoResult, submit |-> NoResult, present |-> NoResult]

\* A swapchain image the application does not hold.
FreeImage == [state |-> "free", frame |-> 0]

\* ------------------------------------------------------------- initVulkan

\* Mutant of initVulkan: the framebuffers are created before the image views
\* and the render pass.
initVulkan_FramebuffersEarly ==
  << "createVulkanInstance", "setupDebugMessenger", "createSurface",
     "pickPhysicalDevice", "createLogicalDevice", "retrieveQueues",
     "createSwapChain", "retrieveSwapChainImages", "createFrameBuffers",
     "createImageViews", "createRenderPass", "createGraphicsPipelineLayout",
     "createGraphicsPipeline", "createCommandPool",
     "createCommandBuffer", "createSyncObjects" >>

\* VulkanApp::initVulkan: the sixteen calls, in the order they are made.
initVulkan ==
  << "createVulkanInstance", "setupDebugMessenger", "createSurface",
     "pickPhysicalDevice", "createLogicalDevice", "retrieveQueues",
     "createSwapChain", "retrieveSwapChainImages", "createImageViews",
     "createRenderPass", "createGraphicsPipelineLayout",
     "createGraphicsPipeline", "createFrameBuffers", "createCommandPool",
     "createCommandBuffer", "createSyncObjects" >>

\* The calls of initVulkan that can raise (successCheck or a throw); the two
\* retrieve calls check nothing.
CanThrow == Range(initVulkan) \ {"retrieveQueues", "retrieveSwapChainImages"}

\* Mutant of ImageCount: the count is not clamped to maxImageCount.
ImageCount_NoClamp(caps) == caps.minImageCount + 1

\* createSwapChain: the image count requested for the swapchain.
ImageCount(caps) ==
  LET imageCount == caps.minImageCount + 1
  IN IF caps.maxImageCount > 0 /\ imageCount > caps.maxImageCount
       THEN caps.maxImageCount
       ELSE imageCount

\* createSyncObjects: the flag the fence is created with
\* (VK_FENCE_CREATE_SIGNALED_BIT).
FenceCreatedSignaled == TRUE

\* The objects a call of initVulkan creates, in the order it creates them;
\* n is the number of swapchain images.
Creates(fn, n) ==
  CASE fn = "createVulkanInstance" -> << Obj("instance", 0) >>
    [] fn = "setupDebugMessenger" ->
         IF enableValidationLayers_ THEN << Obj("debugMessenger", 0) >> ELSE << >>
    [] fn = "createSurface" -> << Obj("surface", 0) >>
    [] fn = "createLogicalDevice" -> << Obj("device", 0) >>
    [] fn = "createSwapChain" -> << Obj("swapChain", 0) >>
    [] fn = "createImageViews" -> ObjList("imageView", n)
    [] fn = "createRenderPass" -> << Obj("renderPass", 0) >>
    [] fn = "createGraphicsPipelineLayout" -> << Obj("pipelineLayout", 0) >>
    [] fn = "createGraphicsPipeline" ->
         << Obj("shaderModule", 0), Obj("shaderModule", 1), Obj("pipeline", 0) >>
    [] fn = "createFrameBuffers" -> ObjList("framebuffer", n)
    [] fn = "createCommandPool" -> << Obj("commandPool", 0) >>
    [] fn = "createCommandBuffer" -> << Obj("commandBuffer", 0) >>
    [] fn = "createSyncObjects" ->
         << Obj("imageAvailableSemaphore", 0), Obj("renderFinishedSemaphore", 0),
            Obj("inFlightFence", 0) >>
    [] OTHER -> << >>

\* The objects a call of initVulkan destroys again before it returns:
\* createGraphicsPipeline destroys its two shader modules.
Transient(fn) ==
  IF fn = "createGraphicsPipeline"
    THEN << Obj("shaderModule", 0), Obj("shaderModule", 1) >>
    ELSE << >>

\* Number of swapchain images known once the call fn has returned.
ImagesAfter(fn) ==
  IF fn = "retrieveSwapChainImages" THEN swapChain_
  ELSE swapChainImages_

\* querySwapChainSupport: the surface capabilities createSwapChain may read
\* (a nonzero maxImageCount is never below minImageCount).
SurfaceCapabilities ==
  { c \in [minImageCount : 1..MaxMinImageCount,
           maxImageCount : 0..(MaxMinImageCount + 1)] :
      c.maxImageCount = 0 \/ c.maxImageCount >= c.minImageCount }

Init ==
  /\ pc = "initVulkan"
  /\ step = 1
  /\ swapChain_ = 0
  /\ swapChainImages_ = 0
  /\ created = << >>
  /\ destroyed = << >>
  /\ frame = 0
  /\ inFlightFence_ = FALSE
  /\ imageAvailableSemaphore_ = 0
  /\ renderFinishedSemaphore_ = 0
  /\ acquirePending = 0
  /\ imageIndex = 0
  /\ commandBuffer_ = [state |-> "initial", framebuffer |-> 0]
  /\ graphicsQueue_ = << >>
  /\ presentQueue_ = << >>
  /\ imageState = [i \in {} |-> FreeImage]
  /\ res = NoResults
  /\ anyFailure = FALSE
  /\ log = << >>
  /\ gpuHistory = [colorWait |-> {}, completed |-> {}, displayed |-> {}]
  /\ at = "call"
  /\ physicalDevice_ = VK_NULL_HANDLE
  /\ deviceCount = 0
  /\ suitability = << >>
  /\ queueFamilies = << >>
  /\ queueCreateInfos = << >>
  /\ queues = NoQueues
  /\ createInfo = NoCreateInfo
  /\ call = NoCall
  /\ error = NoError
  /\ swapChainExtent_ = [width |-> 0, height |-> 0]
  /\ swapChainImageViews_ = << >>
  /\ swapChainFramebuffers_ = << >>
  /\ suitableIndices = [graphicsFamily |-> {}, presentFamily |-> {}]
  /\ commandPool_ = [queueFamilyIndex |-> {}]

\* successCheck: raises unless the result is VK_SUCCESS.
successCheck(result) == result = VK_SUCCESS

\* Results of the creating calls (vkCreateDevice, vkCreateSwapchainKHR,
\* vkCreateImageView, vkCreateFramebuffer, vkCreateDebugUtilsMessengerEXT).
CreateResults == {VK_SUCCESS, VK_ERROR_DEVICE_LOST}

\* Mutant of CreateDebugUtilsMessengerEXT: the entry point is called without
\* the null test; what a call through a null pointer gives back is arbitrary.
CreateDebugUtilsMessengerEXT_NoNullTest(func, result) == result

\* CreateDebugUtilsMessengerEXT: func is whether vkGetInstanceProcAddr
\* resolved vkCreateDebugUtilsMessengerEXT, result what the entry point
\* returns when it is called.
CreateDebugUtilsMessengerEXT(func, result) ==
  IF func THEN result ELSE VK_ERROR_EXTENSION_NOT_PRESENT

\* DestroyDebugUtilsMessengerEXT: the objects destroyed; func is whether
\* vkGetInstanceProcAddr resolved vkDestroyDebugUtilsMessengerEXT.
DestroyDebugUtilsMessengerEXT(func, messenger) ==
  IF func THEN << messenger >> ELSE << >>

\* vkGetInstanceProcAddr at cleanup: the destroy entry point belongs to the
\* same extension of the same instance as the create entry point, so it
\* resolves exactly when the create one did, i.e. when a messenger exists.
DestroyEntryPoint == Obj("debugMessenger", 0) \in Range(created)

\* setupDebugMessenger with validation layers enabled: the entry point is
\* looked up and, if resolved, called; raises tells whether successCheck
\* throws on the result.
DebugMessengerCall(raises) ==
  \E func \in BOOLEAN, native \in CreateResults :
    LET result == CreateDebugUtilsMessengerEXT(func, native)
    IN /\ successCheck(result) = ~raises
       /\ call' = [fn |-> "CreateDebugUtilsMessengerEXT", func |-> func,
                   native |-> native, result |-> result]

\* One call of initVulkan returns normally.
InitVulkanStep ==
  /\ pc = "initVulkan"
  /\ LET fn == initVulkan[step]
         n == ImagesAfter(fn)
     IN /\ created' = created \o Creates(fn, n)
        /\ destroyed' = destroyed \o Transient(fn)
        /\ swapChainImages_' = n
        /\ imageState' = [i \in 0..(n - 1) |-> FreeImage]
        /\ inFlightFence_' =
             IF fn = "createSyncObjects" THEN FenceCreatedSignaled
             ELSE inFlightFence_
        /\ IF fn = "createSwapChain"
             THEN \E capabilities \in SurfaceCapabilities :
                    swapChain_' = ImageCount(capabilities)
             ELSE swapChain_' = swapChain_
        /\ IF step = Len(initVulkan)
             THEN pc' = "mainLoop" /\ step' = 0
             ELSE pc' = pc /\ step' = step + 1
  /\ IF initVulkan[step] = "setupDebugMessenger" /\ enableValidationLayers_
       THEN DebugMessengerCall(FALSE)
       ELSE call' = NoCall
  /\ UNCHANGED setupState
  /\ UNCHANGED <<frame, imageAvailableSemaphore_,
                 renderFinishedSemaphore_, acquirePending, imageIndex,
                 commandBuffer_, graphicsQueue_, presentQueue_, res,
                 anyFailure, log, gpuHistory>>

\* Mutant of Uncaught: run() catches the exception and goes on to mainLoop.
Uncaught_Resumes == "mainLoop"

\* VulkanApp::run: where control is after a call of initVulkan has raised.
\* run() has no handler, so the exception leaves run(): mainLoop() and
\* cleanup() are not reached.
Uncaught == "failed"

\* One call of initVulkan raises: the objects it created before the failing
\* native call stay, nothing after it runs (run() does not catch).
InitVulkanThrow ==
  /\ pc = "initVulkan"
  /\ initVulkan[step] \in CanThrow
  /\ LET objs == Creates(initVulkan[step], swapChainImages_)
     IN \E j \in 0..(IF Len(objs) = 0 THEN 0 ELSE Len(objs) - 1) :
          created' = created \o SubSeq(objs, 1, j)
  /\ pc' = Uncaught
  /\ anyFailure' = TRUE
  /\ IF initVulkan[step] = "setupDebugMessenger" /\ enableValidationLayers_
       THEN DebugMessengerCall(TRUE)
       ELSE call' = NoCall
  /\ UNCHANGED setupState
  /\ UNCHANGED <<step, swapChain_, swapChainImages_, destroyed, frame,
                 inFlightFence_, imageAvailableSemaphore_,
                 renderFinishedSemaphore_, acquirePending, imageIndex,
                 commandBuffer_, graphicsQueue_, presentQueue_, imageState,
                 res, log, gpuHistory>>

\* ------------------------------------------------------ mainLoop, drawFrame

\* Mutant of drawFrame: the fence is never reset.
drawFrame_NoReset ==
  << "vkWaitForFences", "vkAcquireNextImageKHR", "vkResetCommandBuffer",
     "recordCommandBuffer", "vkQueueSubmit", "vkQueuePresentKHR" >>

\* Mutant of drawFrame: the present request is issued before the submit.
drawFrame_PresentFirst ==
  << "vkWaitForFences", "vkResetFences", "vkAcquireNextImageKHR",
     "vkResetCommandBuffer", "recordCommandBuffer", "vkQueuePresentKHR",
     "vkQueueSubmit" >>

\* Mutant of drawFrame: the command buffer is submitted before it is recorded.
drawFrame_SubmitBeforeRecord ==
  << "vkWaitForFences", "vkResetFences", "vkAcquireNextImageKHR",
     "vkResetCommandBuffer", "vkQueueSubmit", "recordCommandBuffer",
     "vkQueuePresentKHR" >>

\* VulkanApp::drawFrame: the calls it makes, in the order it makes them.
drawFrame ==
  << "vkWaitForFences", "vkResetFences", "vkAcquireNextImageKHR",
     "vkResetCommandBuffer", "recordCommandBuffer", "vkQueueSubmit",
     "vkQueuePresentKHR" >>

\* The CPU thread is about to make the call fn of drawFrame.
At(fn) == pc = "drawFrame" /\ step \in 1..Len(drawFrame) /\ drawFrame[step] = fn

\* Mutant of Return: every call of drawFrame returns to the loop head, so
\* the frame is dropped after its first call.
Return_ToLoopHead == pc' = "mainLoop" /\ step' = 0

\* The call returns normally: on to the next call, or back to the loop head.
Return ==
  IF step = Len(drawFrame)
    THEN pc' = "mainLoop" /\ step' = 0
    ELSE pc' = pc /\ step' = step + 1

\* Mutant of FenceWaitReturns: the wait returns without the fence.
FenceWaitReturns_NoWait(fence) == TRUE

\* vkWaitForFences(inFlightFence_, UINT64_MAX) returns once the fence is signaled.
FenceWaitReturns(fence) == fence

\* Mutant of DeviceIdle: the loop exit does not wait for the queues.
DeviceIdle_NoWait(gq, pq) == TRUE

\* vkDeviceWaitIdle returns once every queue of the device is idle.
DeviceIdle(gq, pq) == gq = << >> /\ pq = << >>

\* Mutant of SubmitWaitSatisfied: the batch is submitted with no wait semaphore.
SubmitWaitSatisfied_NoWait(sem) == TRUE

\* submitInfo: the batch waits for imageAvailableSemaphore_ at the
\* color-attachment-output stage.
SubmitWaitSatisfied(sem) == sem # 0

\* Mutant of PresentWaitSatisfied: the request is queued with no wait semaphore.
PresentWaitSatisfied_NoWait(sem) == TRUE

\* presentInfo: the present request waits for renderFinishedSemaphore_.
PresentWaitSatisfied(sem) == sem # 0

\* while (!glfwWindowShouldClose(window_)) { glfwPollEvents(); drawFrame(); }
\* the close signal reads false: one more iteration begins.
MainLoopIterate ==
  /\ pc = "mainLoop"
  /\ frame < MaxFrames
  /\ frame' = frame + 1
  /\ res' = NoResults
  /\ pc' = "drawFrame"
  /\ step' = 1
  /\ UNCHANGED setupVars
  /\ UNCHANGED <<swapChain_, swapChainImages_, created, destroyed,
                 inFlightFence_, imageAvailableSemaphore_,
                 renderFinishedSemaphore_, acquirePending, imageIndex,
                 commandBuffer_, graphicsQueue_, presentQueue_, imageState,
                 anyFailure, log, gpuHistory>>

\* the close signal reads true: the loop is left.
MainLoopExit ==
  /\ pc = "mainLoop"
  /\ pc' = "vkDeviceWaitIdle"
  /\ res' = NoResults
  /\ UNCHANGED setupVars
  /\ UNCHANGED <<step, swapChain_, swapChainImages_, created, destroyed,
                 frame, inFlightFence_, imageAvailableSemaphore_,
                 renderFinishedSemaphore_, acquirePending, imageIndex,
                 commandBuffer_, graphicsQueue_, presentQueue_, imageState,
                 anyFailure, log, gpuHistory>>

\* mainLoop: vkDeviceWaitIdle(device_), then run() goes on to cleanup().
DeviceWaitIdle ==
  /\ pc = "vkDeviceWaitIdle"
  /\ DeviceIdle(graphicsQueue_, presentQueue_)
  /\ log' = Append(log, "vkDeviceWaitIdle")
  /\ pc' = "cleanup"
  /\ step' = 1
  /\ UNCHANGED setupVars
  /\ UNCHANGED <<swapChain_, swapChainImages_, created, destroyed, frame,
                 inFlightFence_, imageAvailableSemaphore_,
                 renderFinishedSemaphore_, acquirePending, imageIndex,
                 commandBuffer_, graphicsQueue_, presentQueue_, imageState,
                 res, anyFailure, gpuHistory>>

\* drawFrame: vkWaitForFences blocks until the fence is signaled.
WaitForFences ==
  /\ At("vkWaitForFences")
  /\ FenceWaitReturns(inFlightFence_)
  /\ log' = Append(log, "vkWaitForFences")
  /\ Return
  /\ UNCHANGED setupVars
  /\ UNCHANGED <<swapChain_, swapChainImages_, created, destroyed, frame,
                 inFlightFence_, imageAvailableSemaphore_,
                 renderFinishedSemaphore_, acquirePending, imageIndex,
                 commandBuffer_, graphicsQueue_, presentQueue_, imageState,
                 res, anyFailure, gpuHistory>>

\* drawFrame: vkResetFences.
ResetFences ==
  /\ At("vkResetFences")
  /\ inFlightFence_' = FALSE
  /\ log' = Append(log, "vkResetFences")
  /\ Return
  /\ UNCHANGED setupVars
  /\ UNCHANGED <<swapChain_, swapChainImages_, created, destroyed, frame,
                 imageAvailableSemaphore_, renderFinishedSemaphore_,
                 acquirePending, imageIndex, commandBuffer_, graphicsQueue_,
                 presentQueue_, imageState, res, anyFailure, gpuHistory>>

\* drawFrame: vkAcquireNextImageKHR(UINT64_MAX, imageAvailableSemaphore_)
\* hands out a free image (it blocks while there is none) and leaves the
\* semaphore signal to the presentation engine; the result is not looked at.
AcquireNextImage ==
  /\ At("vkAcquireNextImageKHR")
  /\ \E r \in {VK_SUCCESS, VK_SUBOPTIMAL_KHR} :
       \E i \in DOMAIN imageState :
         /\ imageState[i] = FreeImage
         /\ imageIndex' = i
         /\ imageState' =
              [imageState EXCEPT ![i] = [state |-> "acquired", frame |-> frame]]
         /\ acquirePending' = frame
         /\ res' = [res EXCEPT !.acquire = r]
         /\ anyFailure' = (anyFailure \/ r # VK_SUCCESS)
  /\ log' = Append(log, "vkAcquireNextImageKHR")
  /\ Return
  /\ UNCHANGED setupVars
  /\ UNCHANGED <<swapChain_, swapChainImages_, created, destroyed, frame,
                 inFlightFence_, imageAvailableSemaphore_,
                 renderFinishedSemaphore_, commandBuffer_, graphicsQueue_,
                 presentQueue_, gpuHistory>>

\* drawFrame: vkAcquireNextImageKHR fails: no image is acquired, no semaphore
\* signal is pending and the local imageIndex keeps whatever value it had
\* (it is uninitialized: any value, swapChainImages_ standing for the
\* out-of-range ones); the result is not looked at.
AcquireNextImageFails ==
  /\ At("vkAcquireNextImageKHR")
  /\ \E garbage \in 0..swapChainImages_ : imageIndex' = garbage
  /\ res' = [res EXCEPT !.acquire = VK_ERROR_OUT_OF_DATE_KHR]
  /\ anyFailure' = TRUE
  /\ log' = Append(log, "vkAcquireNextImageKHR")
  /\ Return
  /\ UNCHANGED setupVars
  /\ UNCHANGED <<swapChain_, swapChainImages_, created, destroyed, frame,
                 inFlightFence_, imageAvailableSemaphore_,
                 renderFinishedSemaphore_, acquirePending, commandBuffer_,
                 graphicsQueue_, presentQueue_, imageState, gpuHistory>>

\* drawFrame: vkResetCommandBuffer.
ResetCommandBuffer ==
  /\ At("vkResetCommandBuffer")
  /\ commandBuffer_' = [state |-> "initial", framebuffer |-> 0]
  /\ log' = Append(log, "vkResetCommandBuffer")
  /\ Return
  /\ UNCHANGED setupVars
  /\ UNCHANGED <<swapChain_, swapChainImages_, created, destroyed, frame,
                 inFlightFence_, imageAvailableSemaphore_,
                 renderFinishedSemaphore_, acquirePending, imageIndex,
                 graphicsQueue_, presentQueue_, imageState, res, anyFailure,
                 gpuHistory>>

\* drawFrame: recordCommandBuffer against swapChainFramebuffers_[imageIndex].
RecordCommandBuffer ==
  /\ At("recordCommandBuffer")
  /\ commandBuffer_' = [state |-> "executable", framebuffer |-> imageIndex]
  /\ log' = Append(log, "recordCommandBuffer")
  /\ Return
  /\ UNCHANGED setupVars
  /\ UNCHANGED <<swapChain_, swapChainImages_, created, destroyed, frame,
                 inFlightFence_, imageAvailableSemaphore_,
                 renderFinishedSemaphore_, acquirePending, imageIndex,
                 graphicsQueue_, presentQueue_, imageState, res, anyFailure,
                 gpuHistory>>

\* drawFrame: vkQueueSubmit(graphicsQueue_, submitInfo, inFlightFence_) and
\* successCheck: a failure raises out of drawFrame, mainLoop and run.
QueueSubmit ==
  /\ At("vkQueueSubmit")
  /\ \E r \in SubmitResults :
       /\ res' = [res EXCEPT !.submit = r]
       /\ anyFailure' = (anyFailure \/ r # VK_SUCCESS)
       /\ IF successCheck(r)
            THEN /\ graphicsQueue_' =
                      Append(graphicsQueue_,
                             [frame |-> frame, stage |-> "queued",
                              framebuffer |-> commandBuffer_.framebuffer])
                 /\ Return
            ELSE /\ graphicsQueue_' = graphicsQueue_
                 /\ pc' = "failed"
                 /\ step' = step
  /\ log' = Append(log, "vkQueueSubmit")
  /\ UNCHANGED setupVars
  /\ UNCHANGED <<swapChain_, swapChainImages_, created, destroyed, frame,
                 inFlightFence_, imageAvailableSemaphore_,
                 renderFinishedSemaphore_, acquirePending, imageIndex,
                 commandBuffer_, presentQueue_, imageState, gpuHistory>>

\* drawFrame: vkQueuePresentKHR(presentQueue_, presentInfo); the result is not
\* looked at.  The semaphore wait is queued whatever the result; a rejected
\* request displays nothing.  drawFrame returns: its local imageIndex is gone.
QueuePresent ==
  /\ At("vkQueuePresentKHR")
  /\ \E r \in PresentResults :
       /\ res' = [res EXCEPT !.present = r]
       /\ anyFailure' = (anyFailure \/ r # VK_SUCCESS)
       /\ presentQueue_' =
            Append(presentQueue_,
                   [frame |-> frame, image |-> imageIndex,
                    accepted |-> (r = VK_SUCCESS)])
  /\ imageState' =
       [i \in DOMAIN imageState |->
          IF i = imageIndex /\ imageState[i].state = "acquired"
            THEN [imageState[i] EXCEPT !.state = "queued"]
            ELSE imageState[i]]
  /\ imageIndex' = 0
  /\ log' = Append(log, "vkQueuePresentKHR")
  /\ Return
  /\ UNCHANGED setupVars
  /\ UNCHANGED <<swapChain_, swapChainImages_, created, destroyed, frame,
                 inFlightFence_, imageAvailableSemaphore_,
                 renderFinishedSemaphore_, acquirePending, commandBuffer_,
                 graphicsQueue_, gpuHistory>>

\* ------------------------------------- graphics queue, presentation engine

\* The presentation engine signals imageAvailableSemaphore_ once the image
\* handed out by vkAcquireNextImageKHR may be written.
ImageBecomesAvailable ==
  /\ acquirePending # 0
  /\ imageAvailableSemaphore_' = acquirePending
  /\ acquirePending' = 0
  /\ UNCHANGED setupVars
  /\ UNCHANGED <<pc, step, swapChain_, swapChainImages_, created, destroyed,
                 frame, inFlightFence_, renderFinishedSemaphore_, imageIndex,
                 commandBuffer_, graphicsQueue_, presentQueue_, imageState,
                 res, anyFailure, log, gpuHistory>>

\* The GPU starts the stages of the oldest batch that come before
\* color-attachment output; the wait stage mask leaves them ungated.
GpuEarlyStages ==
  /\ graphicsQueue_ # << >>
  /\ Head(graphicsQueue_).stage = "queued"
  /\ graphicsQueue_' = [graphicsQueue_ EXCEPT ![1].stage = "early"]
  /\ UNCHANGED setupVars
  /\ UNCHANGED <<pc, step, swapChain_, swapChainImages_, created, destroyed,
                 frame, inFlightFence_, imageAvailableSemaphore_,
                 renderFinishedSemaphore_, acquirePending, imageIndex,
                 commandBuffer_, presentQueue_, imageState, res, anyFailure,
                 log, gpuHistory>>

\* The GPU starts color-attachment output of the oldest batch: the batch's
\* semaphore wait completes, which unsignals imageAvailableSemaphore_.
GpuColorAttachmentOutput ==
  /\ graphicsQueue_ # << >>
  /\ Head(graphicsQueue_).stage = "early"
  /\ SubmitWaitSatisfied(imageAvailableSemaphore_)
  /\ graphicsQueue_' = [graphicsQueue_ EXCEPT ![1].stage = "color"]
  /\ imageAvailableSemaphore_' = 0
  /\ gpuHistory' =
       [gpuHistory EXCEPT
          !.colorWait = @ \cup {<<Head(graphicsQueue_).frame,
                                  imageAvailableSemaphore_>>}]
  /\ UNCHANGED setupVars
  /\ UNCHANGED <<pc, step, swapChain_, swapChainImages_, created, destroyed,
                 frame, inFlightFence_, renderFinishedSemaphore_,
                 acquirePending, imageIndex, commandBuffer_, presentQueue_,
                 imageState, res, anyFailure, log>>

\* The GPU completes the oldest batch: renderFinishedSemaphore_ and
\* inFlightFence_ are signaled.
GpuCompletes ==
  /\ graphicsQueue_ # << >>
  /\ Head(graphicsQueue_).stage = "color"
  /\ graphicsQueue_' = Tail(graphicsQueue_)
  /\ renderFinishedSemaphore_' = Head(graphicsQueue_).frame
  /\ inFlightFence_' = TRUE
  /\ gpuHistory' =
       [gpuHistory EXCEPT !.completed = @ \cup {Head(graphicsQueue_).frame}]
  /\ UNCHANGED setupVars
  /\ UNCHANGED <<pc, step, swapChain_, swapChainImages_, created, destroyed,
                 frame, imageAvailableSemaphore_, acquirePending, imageIndex,
                 commandBuffer_, presentQueue_, imageState, res, anyFailure,
                 log>>

\* The present queue executes its oldest request: the semaphore wait
\* completes, which unsignals renderFinishedSemaphore_, and the image goes to
\* the presentation engine (an accepted request displays it); the history
\* keeps the frame displayed and whether the image shown is the one handed
\* out by that frame's acquire.
PresentExecutes ==
  /\ presentQueue_ # << >>
  /\ PresentWaitSatisfied(renderFinishedSemaphore_)
  /\ LET p == Head(presentQueue_)
         own == /\ p.image \in DOMAIN imageState
                /\ imageState[p.image] = [state |-> "queued", frame |-> p.frame]
     IN /\ imageState' =
             [i \in DOMAIN imageState |->
                IF i = p.image /\ imageState[i].state = "queued" THEN FreeImage
                ELSE imageState[i]]
        /\ gpuHistory' =
             [gpuHistory EXCEPT
                !.displayed = IF p.accepted THEN @ \cup {<<p.frame, own>>}
                              ELSE @]
  /\ presentQueue_' = Tail(presentQueue_)
  /\ renderFinishedSemaphore_' = 0
  /\ UNCHANGED setupVars
  /\ UNCHANGED <<pc, step, swapChain_, swapChainImages_, created, destroyed,
                 frame, inFlightFence_, imageAvailableSemaphore_,
                 acquirePending, imageIndex, commandBuffer_, graphicsQueue_,
                 res, anyFailure, log>>

\* ------------------------------------------------------------------ cleanup

\* Mutant of cleanup: the device is destroyed before the swapchain.
cleanup_DeviceFirst(n) ==
  << Obj("imageAvailableSemaphore", 0), Obj("renderFinishedSemaphore", 0),
     Obj("inFlightFence", 0), Obj("commandPool", 0) >>
  \o ObjList("framebuffer", n)
  \o << Obj("pipeline", 0), Obj("pipelineLayout", 0), Obj("renderPass", 0) >>
  \o ObjList("imageView", n)
  \o << Obj("device", 0), Obj("swapChain", 0) >>
  \o (IF enableValidationLayers_ THEN << Obj("debugMessenger", 0) >> ELSE << >>)
  \o << Obj("surface", 0), Obj("instance", 0) >>

\* Mutant of cleanup: the fence is never destroyed.
cleanup_LeaksFence(n) ==
  << Obj("imageAvailableSemaphore", 0), Obj("renderFinishedSemaphore", 0),
     Obj("commandPool", 0) >>
  \o ObjList("framebuffer", n)
  \o << Obj("pipeline", 0), Obj("pipelineLayout", 0), Obj("renderPass", 0) >>
  \o ObjList("imageView", n)
  \o << Obj("swapChain", 0), Obj("device", 0) >>
  \o (IF enableValidationLayers_ THEN << Obj("debugMessenger", 0) >> ELSE << >>)
  \o << Obj("surface", 0), Obj("instance", 0) >>

\* Mutant of cleanup: the image views are destroyed before the framebuffers
\* that have them as attachments.
cleanup_ViewsFirst(n) ==
  << Obj("imageAvailableSemaphore", 0), Obj("renderFinishedSemaphore", 0),
     Obj("inFlightFence", 0), Obj("commandPool", 0) >>
  \o ObjList("imageView", n)
  \o ObjList("framebuffer", n)
  \o << Obj("pipeline", 0), Obj("pipelineLayout", 0), Obj("renderPass", 0) >>
  \o << Obj("swapChain", 0), Obj("device", 0) >>
  \o (IF enableValidationLayers_ THEN << Obj("debugMessenger", 0) >> ELSE << >>)
  \o << Obj("surface", 0), Obj("instance", 0) >>

\* VulkanApp::cleanup: the objects it destroys, in the order it destroys
\* them; n is the size of swapChainFramebuffers_ and swapChainImageViews_.
cleanup(n) ==
  << Obj("imageAvailableSemaphore", 0), Obj("renderFinishedSemaphore", 0),
     Obj("inFlightFence", 0), Obj("commandPool", 0) >>
  \o ObjList("framebuffer", n)
  \o << Obj("pipeline", 0), Obj("pipelineLayout", 0), Obj("renderPass", 0) >>
  \o ObjList("imageView", n)
  \o << Obj("swapChain", 0), Obj("device", 0) >>
  \o (IF enableValidationLayers_ THEN << Obj("debugMessenger", 0) >> ELSE << >>)
  \o << Obj("surface", 0), Obj("instance", 0) >>

\* One destroy call of cleanup.
CleanupStep ==
  /\ pc = "cleanup"
  /\ LET order == cleanup(swapChainImages_)
         messenger == Obj("debugMessenger", 0)
     IN /\ IF order[step] = messenger
             THEN LET func == DestroyEntryPoint
                      gone == DestroyDebugUtilsMessengerEXT(func, messenger)
                  IN /\ destroyed' = destroyed \o gone
                     /\ call' = [fn |-> "DestroyDebugUtilsMessengerEXT",
                                 func |-> func, destroyed |-> gone]
             ELSE destroyed' = Append(destroyed, order[step]) /\ call' = call
        /\ IF step = Len(order)
             THEN pc' = "done" /\ step' = 0
             ELSE pc' = pc /\ step' = step + 1
  /\ UNCHANGED setupState
  /\ UNCHANGED <<swapChain_, swapChainImages_, created, frame,
                 inFlightFence_, imageAvailableSemaphore_,
                 renderFinishedSemaphore_, acquirePending, imageIndex,
                 commandBuffer_, graphicsQueue_, presentQueue_, imageState,
                 res, anyFailure, log, gpuHistory>>

\* ------------------------------------------- device and swapchain helpers

\* the sequences over S of length at most n
SeqsUpTo(S, n) == UNION {[1..k -> S] : k \in 0..n}

\* QueueFamilyIndices: an optional index is the empty set or a singleton.
nullopt == {}

has_value(opt) == opt # nullopt

value(opt) == CHOOSE v \in opt : TRUE

\* Mutant of isComplete: the present family is not looked at.
isComplete_GraphicsOnly(indices) == has_value(indices.graphicsFamily)

\* QueueFamilyIndices::isComplete
isComplete(indices) ==
  has_value(indices.graphicsFamily) /\ has_value(indices.presentFamily)

RECURSIVE findQueueFamiliesFrom(_, _, _)
\* findQueueFamilies: the loop from family i on (i counts from 0)
findQueueFamiliesFrom(families, i, indices) ==
  IF i >= Len(families) THEN indices
  ELSE LET queueFamily == families[i + 1]
           next == [graphicsFamily |-> IF queueFamily.graphics THEN {i}
                                       ELSE indices.graphicsFamily,
                    presentFamily |-> IF queueFamily.present THEN {i}
                                      ELSE indices.presentFamily]
       IN IF isComplete(next) THEN next
          ELSE findQueueFamiliesFrom(families, i + 1, next)

\* findQueueFamilies(device, surface); families[i + 1] tells whether family i
\* has VK_QUEUE_GRAPHICS_BIT and whether it can present to the surface.
findQueueFamilies(families) ==
  findQueueFamiliesFrom(families, 0,
                        [graphicsFamily |-> nullopt, presentFamily |-> nullopt])

\* The families findQueueFamilies reads: the list up to the family at which
\* the loop is left, or all of it.
ScannedFamilies(families) ==
  LET stops(k) == isComplete(findQueueFamilies(SubSeq(families, 1, k)))
      n == CHOOSE k \in 0..Len(families) :
             /\ stops(k) \/ k = Len(families)
             /\ \A j \in 0..(k - 1) : ~stops(j)
  IN SubSeq(families, 1, n)

\* checkDeviceExtensionSupport: every required name is among the available.
checkDeviceExtensionSupport(available, requiredExts) ==
  requiredExts \ available = {}

\* SwapChainSupportDetails::swapChainSupported
swapChainSupported(device) == device.hasFormats /\ device.hasPresentModes

\* Mutant of isDeviceSuitable: swapchain support is not asked for.
isDeviceSuitable_NoSwapChain(device) ==
  /\ device.deviceType = VK_PHYSICAL_DEVICE_TYPE_DISCRETE_GPU
  /\ device.geometryShader
  /\ checkDeviceExtensionSupport(device.extensions, deviceExts_)
  /\ isComplete(findQueueFamilies(device.queueFamilies))

\* isDeviceSuitable
isDeviceSuitable(device) ==
  LET a == /\ device.deviceType = VK_PHYSICAL_DEVICE_TYPE_DISCRETE_GPU
           /\ device.geometryShader
      b == a /\ checkDeviceExtensionSupport(device.extensions, deviceExts_)
      c == IF b THEN b /\ swapChainSupported(device) ELSE b
  IN c /\ isComplete(findQueueFamilies(device.queueFamilies))

\* Mutant of NoDevices: the device count is not looked at.
NoDevices_Unchecked(count) == FALSE

\* pickPhysicalDevice: if (deviceCount == 0) throw
NoDevices(count) == count = 0

\* Mutant of PickBreaks: the loop goes on after a suitable device.
PickBreaks_NoBreak(suitable) == FALSE

\* pickPhysicalDevice: the loop is left at the first suitable device.
PickBreaks(suitable) == suitable

\* the surface format chooseSwapSurfaceFormat looks for
Preferred(fmt) ==
  /\ fmt.format = VK_FORMAT_B8G8R8A8_SRGB
  /\ fmt.colorSpace = VK_COLOR_SPACE_SRGB_NONLINEAR_KHR

\* Mutant of chooseSwapSurfaceFormat: falls back to the first entry.
chooseSwapSurfaceFormat_First(availableFormats) ==
  IF availableFormats = << >>
    THEN [ok |-> FALSE, what |-> NoAcceptableFormatError]
    ELSE [ok |-> TRUE,
          value |-> IF \E i \in 1..Len(availableFormats) :
                         Preferred(availableFormats[i])
                      THEN availableFormats[
                             CHOOSE i \in 1..Len(availableFormats) :
                               Preferred(availableFormats[i])]
                      ELSE availableFormats[1]]

\* chooseSwapSurfaceFormat: the first preferred entry, or the exception.
chooseSwapSurfaceFormat(availableFormats) ==
  LET hits == {i \in 1..Len(availableFormats) : Preferred(availableFormats[i])}
  IN IF hits = {}
       THEN [ok |-> FALSE, what |-> NoAcceptableFormatError]
       ELSE [ok |-> TRUE,
             value |-> availableFormats[CHOOSE i \in hits :
                                          \A j \in hits : i <= j]]

\* Mutant of chooseSwapPresentMode: mailbox is never picked.
chooseSwapPresentMode_Fifo(availablePresentModes) == VK_PRESENT_MODE_FIFO_KHR

\* chooseSwapPresentMode
chooseSwapPresentMode(availablePresentModes) ==
  IF \E i \in 1..Len(availablePresentModes) :
       availablePresentModes[i] = VK_PRESENT_MODE_MAILBOX_KHR
    THEN VK_PRESENT_MODE_MAILBOX_KHR
    ELSE VK_PRESENT_MODE_FIFO_KHR

\* std::clamp(v, lo, hi)
clamp(v, lo, hi) == IF v < lo THEN lo ELSE IF hi < v THEN hi ELSE v

\* Mutant of chooseSwapExtent: the framebuffer size is used unclamped.
chooseSwapExtent_NoClamp(capabilities, window) ==
  IF capabilities.currentExtent.width # UINT32_MAX
    THEN capabilities.currentExtent
    ELSE window

\* chooseSwapExtent; window is what glfwGetFramebufferSize reports.
chooseSwapExtent(capabilities, window) ==
  IF capabilities.currentExtent.width # UINT32_MAX
    THEN capabilities.currentExtent
    ELSE [width |-> clamp(window.width, capabilities.minImageExtent.width,
                          capabilities.maxImageExtent.width),
          height |-> clamp(window.height, capabilities.minImageExtent.height,
                           capabilities.maxImageExtent.height)]

\* Mutant of SharingMode: the images are always exclusive.
SharingMode_Exclusive(indices) ==
  [imageSharingMode |-> VK_SHARING_MODE_EXCLUSIVE,
   queueFamilyIndexCount |-> 0, pQueueFamilyIndices |-> << >>]

\* createSwapChain: the sharing fields of createInfo.
SharingMode(indices) ==
  IF indices.graphicsFamily # indices.presentFamily
    THEN [imageSharingMode |-> VK_SHARING_MODE_CONCURRENT,
          queueFamilyIndexCount |-> 2,
          pQueueFamilyIndices |-> << value(indices.graphicsFamily),
                                     value(indices.presentFamily) >>]
    ELSE [imageSharingMode |-> VK_SHARING_MODE_EXCLUSIVE,
          queueFamilyIndexCount |-> 0, pQueueFamilyIndices |-> << >>]

\* createLogicalDevice: one request per element of uniqueQueueFamilies, each
\* with queueFamilyIndex = indices.graphicsFamily.value().
QueueCreateInfos(indices) ==
  LET uniqueQueueFamilies == {value(indices.graphicsFamily),
                              value(indices.presentFamily)}
  IN [k \in 1..Cardinality(uniqueQueueFamilies) |->
        value(indices.graphicsFamily)]

\* --------------------------------------- what the devices and surface report

\* One queue family: VK_QUEUE_GRAPHICS_BIT in queueFlags, and presentSupport.
QueueFamilyProperties == [graphics : BOOLEAN, present : BOOLEAN]

\* What a physical device answers to the queries isDeviceSuitable makes.
PhysicalDevices ==
  [deviceType : {VK_PHYSICAL_DEVICE_TYPE_DISCRETE_GPU,
                 VK_PHYSICAL_DEVICE_TYPE_INTEGRATED_GPU},
   geometryShader : BOOLEAN,
   extensions : SUBSET {VK_KHR_SWAPCHAIN_EXTENSION_NAME},
   hasFormats : BOOLEAN,
   hasPresentModes : BOOLEAN,
   queueFamilies : SeqsUpTo(QueueFamilyProperties, MaxFamilies)]

SurfaceFormats ==
  [format : {VK_FORMAT_B8G8R8A8_SRGB, VK_FORMAT_B8G8R8A8_UNORM},
   colorSpace : {VK_COLOR_SPACE_SRGB_NONLINEAR_KHR,
                 VK_COLOR_SPACE_EXTENDED_SRGB_LINEAR_EXT}]

PresentModes ==
  {VK_PRESENT_MODE_IMMEDIATE_KHR, VK_PRESENT_MODE_MAILBOX_KHR,
   VK_PRESENT_MODE_FIFO_KHR}

Extents(S) == [width : S, height : S]

\* The extents of VkSurfaceCapabilitiesKHR: currentExtent is a size or the
\* all-bits-set value, and minImageExtent is within maxImageExtent.
ExtentCapabilities ==
  { c \in [currentExtent : Extents(1..MaxExtent)
                             \cup Extents({UINT32_MAX}),
           minImageExtent : Extents(1..MaxExtent),
           maxImageExtent : Extents(1..MaxExtent)] :
      /\ c.minImageExtent.width <= c.maxImageExtent.width
      /\ c.minImageExtent.height <= c.maxImageExtent.height }

\* glfwGetFramebufferSize: 0 x 0 for a minimized window.
FramebufferSizes == Extents(0..MaxExtent)

\* ------------------------------------------------ device and swapchain setup

\* The CPU thread is about to run the part `where` of the call fn of
\* initVulkan, no helper call being open.
InSetup(fn, where) ==
  pc = "initVulkan" /\ initVulkan[step] = fn /\ at = where /\ call.fn = "none"

\* The call of initVulkan returns: on to the next call.
SetupReturn == pc' = pc /\ step' = step + 1 /\ at' = "call"

\* The call raises std::runtime_error(what): run() does not catch it.
SetupRaise(what) ==
  /\ pc' = "failed"
  /\ error' = what
  /\ anyFailure' = TRUE
  /\ step' = step
  /\ at' = at

\* What the setup of device and swapchain leaves alone.
poolVars == <<suitableIndices, commandPool_>>

swapChainVars ==
  <<swapChainExtent_, swapChainImageViews_, swapChainFramebuffers_>>

frameVars ==
  <<swapChainImages_, destroyed, frame, inFlightFence_,
    imageAvailableSemaphore_, renderFinishedSemaphore_, acquirePending,
    imageIndex, commandBuffer_, graphicsQueue_, presentQueue_, imageState,
    res, log, gpuHistory>>

\* pickPhysicalDevice: vkEnumeratePhysicalDevices, and the throw on no device.
EnumeratePhysicalDevices ==
  /\ InSetup("pickPhysicalDevice", "call")
  /\ \E n \in 0..MaxDevices :
       /\ deviceCount' = n
       /\ IF NoDevices(n)
            THEN SetupRaise(NoDeviceError)
            ELSE /\ pc' = pc /\ step' = step
                 /\ at' = IF n = 0 THEN "check" ELSE "loop"
                 /\ error' = error /\ anyFailure' = anyFailure
  /\ suitability' = << >>
  /\ call' = NoCall
  /\ UNCHANGED <<swapChain_, created, physicalDevice_, queueFamilies,
                 queueCreateInfos, queues, createInfo>>
  /\ UNCHANGED frameVars
  /\ UNCHANGED swapChainVars
  /\ UNCHANGED poolVars

\* pickPhysicalDevice: one iteration of the loop over the devices.
PickPhysicalDeviceLoop ==
  /\ InSetup("pickPhysicalDevice", "loop")
  /\ Len(suitability) < deviceCount
  /\ \E device \in PhysicalDevices :
       LET suitable == isDeviceSuitable(device)
           i == Len(suitability) + 1
       IN /\ suitability' = Append(suitability, suitable)
          /\ call' = [fn |-> "isDeviceSuitable", device |-> device,
                      families |-> device.queueFamilies,
                      indices |-> findQueueFamilies(device.queueFamilies),
                      result |-> suitable]
          /\ physicalDevice_' = IF suitable THEN i ELSE physicalDevice_
          /\ queueFamilies' =
               IF suitable THEN ScannedFamilies(device.queueFamilies)
               ELSE queueFamilies
          /\ suitableIndices' =
               IF suitable THEN findQueueFamilies(device.queueFamilies)
               ELSE suitableIndices
          /\ at' = IF PickBreaks(suitable) \/ i = deviceCount
                     THEN "check" ELSE "loop"
  /\ UNCHANGED <<pc, step, swapChain_, created, anyFailure, deviceCount,
                 queueCreateInfos, queues, createInfo, error>>
  /\ UNCHANGED frameVars
  /\ UNCHANGED swapChainVars
  /\ UNCHANGED commandPool_

\* pickPhysicalDevice: the throw when no device was picked, or the return.
PickPhysicalDeviceEnds ==
  /\ InSetup("pickPhysicalDevice", "check")
  /\ IF physicalDevice_ = VK_NULL_HANDLE
       THEN SetupRaise(NoSuitableDeviceError) /\ deviceCount' = deviceCount
       ELSE /\ SetupReturn
            /\ deviceCount' = 0
            /\ error' = error /\ anyFailure' = anyFailure
  /\ call' = NoCall
  /\ UNCHANGED <<swapChain_, created, physicalDevice_, suitability,
                 queueFamilies, queueCreateInfos, queues, createInfo>>
  /\ UNCHANGED frameVars
  /\ UNCHANGED swapChainVars
  /\ UNCHANGED poolVars

\* createLogicalDevice
CreateLogicalDevice ==
  /\ InSetup("createLogicalDevice", "call")
  /\ LET indices == findQueueFamilies(queueFamilies)
     IN /\ queueCreateInfos' = QueueCreateInfos(indices)
        /\ call' = [fn |-> "findQueueFamilies", indices |-> indices]
  /\ \E result \in CreateResults :
       IF successCheck(result)
         THEN /\ created' = created \o Creates("createLogicalDevice", 0)
              /\ SetupReturn
              /\ error' = error /\ anyFailure' = anyFailure
         ELSE /\ created' = created
              /\ SetupRaise("Failed to create logical device")
  /\ UNCHANGED <<swapChain_, physicalDevice_, deviceCount, suitability,
                 queueFamilies, queues, createInfo>>
  /\ UNCHANGED frameVars
  /\ UNCHANGED swapChainVars
  /\ UNCHANGED poolVars

\* retrieveQueues: queue 0 of the graphics and of the present family.
RetrieveQueues ==
  /\ InSetup("retrieveQueues", "call")
  /\ LET indices == findQueueFamilies(queueFamilies)
     IN /\ queues' = [graphics |-> indices.graphicsFamily,
                      present |-> indices.presentFamily]
        /\ call' = [fn |-> "findQueueFamilies", indices |-> indices]
  /\ SetupReturn
  /\ UNCHANGED <<swapChain_, created, anyFailure, physicalDevice_,
                 deviceCount, suitability, queueFamilies, queueCreateInfos,
                 createInfo, error>>
  /\ UNCHANGED frameVars
  /\ UNCHANGED swapChainVars
  /\ UNCHANGED poolVars

\* createSwapChain: chooseSwapSurfaceFormat(details.formats).  The device
\* picked reports at least one format and one present mode.
ChooseSwapSurfaceFormat ==
  /\ InSetup("createSwapChain", "call")
  /\ \E formats \in SeqsUpTo(SurfaceFormats, MaxFormats) \ {<< >>} :
       LET surfaceFormat == chooseSwapSurfaceFormat(formats)
       IN /\ call' = [fn |-> "chooseSwapSurfaceFormat",
                      availableFormats |-> formats, result |-> surfaceFormat]
          /\ IF surfaceFormat.ok
               THEN /\ createInfo' =
                         [createInfo EXCEPT
                            !.imageFormat = surfaceFormat.value.format,
                            !.imageColorSpace = surfaceFormat.value.colorSpace]
                    /\ pc' = pc /\ step' = step
                    /\ at' = "chooseSwapPresentMode"
                    /\ error' = error /\ anyFailure' = anyFailure
               ELSE /\ createInfo' = createInfo
                    /\ SetupRaise(surfaceFormat.what)
  /\ UNCHANGED <<swapChain_, created, physicalDevice_, deviceCount,
                 suitability, queueFamilies, queueCreateInfos, queues>>
  /\ UNCHANGED frameVars
  /\ UNCHANGED swapChainVars
  /\ UNCHANGED poolVars

\* createSwapChain: chooseSwapPresentMode(details.presentModes)
ChooseSwapPresentMode ==
  /\ InSetup("createSwapChain", "chooseSwapPresentMode")
  /\ \E modes \in SeqsUpTo(PresentModes, MaxPresentModes) \ {<< >>} :
       LET presentMode == chooseSwapPresentMode(modes)
       IN /\ call' = [fn |-> "chooseSwapPresentMode",
                      availablePresentModes |-> modes, result |-> presentMode]
          /\ createInfo' = [createInfo EXCEPT !.presentMode = presentMode]
  /\ at' = "chooseSwapExtent"
  /\ UNCHANGED <<pc, step, swapChain_, created, anyFailure, physicalDevice_,
                 deviceCount, suitability, queueFamilies, queueCreateInfos,
                 queues, error>>
  /\ UNCHANGED frameVars
  /\ UNCHANGED swapChainVars
  /\ UNCHANGED poolVars

\* createSwapChain: chooseSwapExtent(details.capabilities, window_)
ChooseSwapExtent ==
  /\ InSetup("createSwapChain", "chooseSwapExtent")
  /\ \E capabilities \in ExtentCapabilities, window \in FramebufferSizes :
       LET extent == chooseSwapExtent(capabilities, window)
       IN /\ call' = [fn |-> "chooseSwapExtent", capabilities |-> capabilities,
                      window |-> window, result |-> extent]
          /\ swapChainExtent_' = extent
          /\ createInfo' = [createInfo EXCEPT !.imageExtent = swapChainExtent_']
  /\ at' = "vkCreateSwapchainKHR"
  /\ UNCHANGED <<pc, step, swapChain_, created, anyFailure, physicalDevice_,
                 deviceCount, suitability, queueFamilies, queueCreateInfos,
                 queues, error, swapChainImageViews_, swapChainFramebuffers_>>
  /\ UNCHANGED frameVars
  /\ UNCHANGED poolVars

\* createSwapChain: the image count, the sharing mode, vkCreateSwapchainKHR
\* and successCheck.
CreateSwapchainKHR ==
  /\ InSetup("createSwapChain", "vkCreateSwapchainKHR")
  /\ \E capabilities \in SurfaceCapabilities, result \in CreateResults :
       LET imageCount == ImageCount(capabilities)
           indices == findQueueFamilies(queueFamilies)
           sharing == SharingMode(indices)
       IN /\ call' = [fn |-> "vkCreateSwapchainKHR",
                      capabilities |-> capabilities, indices |-> indices,
                      result |-> result]
          /\ createInfo' =
               [createInfo EXCEPT
                  !.minImageCount = imageCount,
                  !.imageSharingMode = sharing.imageSharingMode,
                  !.queueFamilyIndexCount = sharing.queueFamilyIndexCount,
                  !.pQueueFamilyIndices = sharing.pQueueFamilyIndices]
          /\ IF successCheck(result)
               THEN /\ swapChain_' = imageCount
                    /\ created' = created \o Creates("createSwapChain", 0)
                    /\ pc' = pc /\ step' = step /\ at' = "return"
                    /\ error' = error /\ anyFailure' = anyFailure
               ELSE /\ swapChain_' = swapChain_
                    /\ created' = created
                    /\ SetupRaise("Failed to create swap chain")
  /\ UNCHANGED <<physicalDevice_, deviceCount, suitability, queueFamilies,
                 queueCreateInfos, queues>>
  /\ UNCHANGED frameVars
  /\ UNCHANGED swapChainVars
  /\ UNCHANGED poolVars

\* A helper call returns: its arguments are gone.
HelperReturns ==
  /\ pc = "initVulkan"
  /\ call.fn # "none"
  /\ at # "return"
  /\ call' = NoCall
  /\ UNCHANGED <<pc, step, swapChain_, created, anyFailure, at,
                 physicalDevice_, deviceCount, suitability, queueFamilies,
                 queueCreateInfos, queues, createInfo, error>>
  /\ UNCHANGED frameVars
  /\ UNCHANGED swapChainVars
  /\ UNCHANGED poolVars

\* createSwapChain returns: its locals are gone.
CreateSwapChainReturns ==
  /\ pc = "initVulkan" /\ initVulkan[step] = "createSwapChain"
  /\ at = "return"
  /\ SetupReturn
  /\ createInfo' = NoCreateInfo
  /\ call' = NoCall
  /\ UNCHANGED <<swapChain_, created, anyFailure, physicalDevice_,
                 deviceCount, suitability, queueFamilies, queueCreateInfos,
                 queues, error>>
  /\ UNCHANGED frameVars
  /\ UNCHANGED swapChainVars
  /\ UNCHANGED poolVars

\* Mutant of CommandPoolFamily: the pool is created for the present family.
CommandPoolFamily_Present(indices) == value(indices.presentFamily)

\* createCommandPool: poolInfo.queueFamilyIndex.
CommandPoolFamily(indices) == value(indices.graphicsFamily)

\* createCommandPool: findQueueFamilies once more, then the pool is created
\* for the graphics family and the result checked.
CreateCommandPool ==
  /\ InSetup("createCommandPool", "call")
  /\ LET indices == findQueueFamilies(queueFamilies)
     IN /\ call' = [fn |-> "findQueueFamilies", indices |-> indices]
        /\ \E result \in CreateResults :
             IF successCheck(result)
               THEN /\ commandPool_' =
                         [queueFamilyIndex |-> {CommandPoolFamily(indices)}]
                    /\ created' = created \o Creates("createCommandPool", 0)
                    /\ SetupReturn
                    /\ error' = error /\ anyFailure' = anyFailure
               ELSE /\ commandPool_' = commandPool_
                    /\ created' = created
                    /\ SetupRaise("Failed to create command pool")
  /\ UNCHANGED <<swapChain_, physicalDevice_, deviceCount, suitability,
                 queueFamilies, queueCreateInfos, queues, createInfo,
                 suitableIndices>>
  /\ UNCHANGED frameVars
  /\ UNCHANGED swapChainVars

\* A handle the vector holds after resize() and before it is created.
NullImageView == [image |-> {}]

NullFramebuffer == [attachments |-> << >>, width |-> 0, height |-> 0]

\* The number of leading results that pass successCheck: how many rounds of a
\* creating loop run before one raises (all of them if none does).
Passed(results) ==
  CHOOSE k \in 0..Len(results) :
    /\ \A i \in 1..k : successCheck(results[i])
    /\ k = Len(results) \/ ~successCheck(results[k + 1])

\* Mutant of ViewImage: every view is created of the first swapchain image.
ViewImage_First(i) == 0

\* createImageViews: the image view i is created of (swapChainImages_[i]).
ViewImage(i) == i

\* createImageViews: one view per swapchain image, each result checked.
CreateImageViews ==
  /\ InSetup("createImageViews", "call")
  /\ \E results \in [1..swapChainImages_ -> CreateResults] :
       LET n == Passed(results)
       IN /\ swapChainImageViews_' =
               [i \in 1..swapChainImages_ |->
                  IF i <= n THEN [image |-> {ViewImage(i - 1)}]
                  ELSE NullImageView]
          /\ created' = created \o ObjList("imageView", n)
          /\ IF n = swapChainImages_
               THEN SetupReturn /\ error' = error /\ anyFailure' = anyFailure
               ELSE SetupRaise("Failed to create image views")
  /\ UNCHANGED <<swapChain_, physicalDevice_, deviceCount, suitability,
                 queueFamilies, queueCreateInfos, queues, createInfo, call,
                 swapChainExtent_, swapChainFramebuffers_>>
  /\ UNCHANGED frameVars
  /\ UNCHANGED poolVars

\* createFrameBuffers: one framebuffer per image view, with that view as its
\* only attachment and the swapchain extent as its size, each result checked.
CreateFrameBuffers ==
  /\ InSetup("createFrameBuffers", "call")
  /\ \E results \in [1..Len(swapChainImageViews_) -> CreateResults] :
       LET n == Passed(results)
       IN /\ swapChainFramebuffers_' =
               [i \in 1..Len(swapChainImageViews_) |->
                  IF i <= n
                    THEN [attachments |-> << i - 1 >>,
                          width |-> swapChainExtent_.width,
                          height |-> swapChainExtent_.height]
                    ELSE NullFramebuffer]
          /\ created' = created \o ObjList("framebuffer", n)
          /\ IF n = Len(swapChainImageViews_)
               THEN SetupReturn /\ error' = error /\ anyFailure' = anyFailure
               ELSE SetupRaise("Failed to create framebuffer")
  /\ UNCHANGED <<swapChain_, physicalDevice_, deviceCount, suitability,
                 queueFamilies, queueCreateInfos, queues, createInfo, call,
                 swapChainExtent_, swapChainImageViews_>>
  /\ UNCHANGED frameVars
  /\ UNCHANGED poolVars

\* The calls of initVulkan followed part by part under SetupSpec.
SetupCalls ==
  {"pickPhysicalDevice", "createLogicalDevice", "retrieveQueues",
   "createSwapChain", "createImageViews", "createFrameBuffers",
   "createCommandPool"}

\* Any other call of initVulkan returns.
SetupOtherStep ==
  /\ pc = "initVulkan"
  /\ initVulkan[step] \notin SetupCalls
  /\ InitVulkanStep

\* Any other call of initVulkan raises.
SetupOtherThrow ==
  /\ pc = "initVulkan"
  /\ initVulkan[step] \notin SetupCalls
  /\ InitVulkanThrow

SetupNext ==
  \/ SetupOtherStep
  \/ SetupOtherThrow
  \/ EnumeratePhysicalDevices
  \/ PickPhysicalDeviceLoop
  \/ PickPhysicalDeviceEnds
  \/ CreateLogicalDevice
  \/ RetrieveQueues
  \/ ChooseSwapSurfaceFormat
  \/ ChooseSwapPresentMode
  \/ ChooseSwapExtent
  \/ CreateSwapchainKHR
  \/ CreateSwapChainReturns
  \/ CreateImageViews
  \/ CreateFrameBuffers
  \/ CreateCommandPool
  \/ HelperReturns

\* initVulkan with the device and the swapchain set up part by part, on
\* whatever the devices and the surface report.
SetupSpec == Init /\ [][SetupNext]_vars

\* ------------------------------------------------------------ specification

CpuNext ==
  \/ InitVulkanStep
  \/ InitVulkanThrow
  \/ MainLoopIterate
  \/ MainLoopExit
  \/ DeviceWaitIdle
  \/ WaitForFences
  \/ ResetFences
  \/ AcquireNextImage
  \/ AcquireNextImageFails
  \/ ResetCommandBuffer
  \/ RecordCommandBuffer
  \/ QueueSubmit
  \/ QueuePresent
  \/ CleanupStep

GpuNext ==
  \/ ImageBecomesAvailable
  \/ GpuEarlyStages
  \/ GpuColorAttachmentOutput
  \/ GpuCompletes
  \/ PresentExecutes

Next == CpuNext \/ GpuNext

Spec == Init /\ [][Next]_vars

\* The CPU thread keeps running while a call can return, and the GPU and the
\* presentation engine complete every operation whose waits are satisfied.
FairSpec ==
  /\ Spec
  /\ WF_vars(CpuNext)
  /\ WF_vars(ImageBecomesAvailable)
  /\ WF_vars(GpuEarlyStages)
  /\ WF_vars(GpuColorAttachmentOutput)
  /\ WF_vars(GpuCompletes)
  /\ WF_vars(PresentExecutes)

\* ------------------------------------------------------------------- claims

\* C1: single frame in flight.  In every reachable state at most one
\* submitted execution of the command buffer is incomplete, and whenever the
\* CPU is about to reset the command buffer, is re-recording it, or holds it
\* recorded and not yet submitted, no earlier submission of it is pending.
SingleFrameInFlight ==
  /\ Len(graphicsQueue_) <= 1
  /\ (At("vkResetCommandBuffer") \/ At("recordCommandBuffer")
        \/ At("vkQueueSubmit"))
       => graphicsQueue_ = << >>

\* C1 witness: a later frame re-records the command buffer after an earlier
\* submission of it has run on the GPU.
SingleFrameInFlightWitness ==
  /\ At("recordCommandBuffer")
  /\ frame >= 2
  /\ (frame - 1) \in gpuHistory.completed

\* C2 (as claimed): when the fence wait of a later frame has returned, the
\* image-acquired semaphore has no pending signal or wait and the
\* render-finished semaphore has no pending wait by the presentation engine.
SyncObjectsUnusedAfterFenceWait ==
  (At("vkResetFences") /\ frame >= 2) =>
     /\ imageAvailableSemaphore_ = 0
     /\ acquirePending = 0
     /\ presentQueue_ = << >>

\* C3: in every frame the GPU begins color-attachment output of the
\* submitted batch only after the image-acquired semaphore has been signaled
\* by that same frame's acquire: every semaphore wait a batch has completed
\* consumed the signal of its own frame's acquire, and every batch at or
\* past color-attachment output has completed that wait.
ColorOutputAfterImageAvailable ==
  /\ \A w \in gpuHistory.colorWait : w[2] = w[1]
  /\ \A i \in 1..Len(graphicsQueue_) :
       graphicsQueue_[i].stage = "color" =>
         <<graphicsQueue_[i].frame, graphicsQueue_[i].frame>>
           \in gpuHistory.colorWait
  /\ \A f \in gpuHistory.completed : <<f, f>> \in gpuHistory.colorWait

\* C3 witness: the stages before color-attachment output of a batch are
\* running while the image-acquired semaphore is still unsignaled, and in an
\* earlier frame a batch went through color-attachment output.
ColorOutputAfterImageAvailableWitness ==
  /\ graphicsQueue_ # << >>
  /\ Head(graphicsQueue_).stage = "early"
  /\ imageAvailableSemaphore_ = 0
  /\ acquirePending = Head(graphicsQueue_).frame
  /\ gpuHistory.colorWait # {}

\* C4: the presentation engine displays an image only after the
\* render-finished semaphore has been signaled by the completion of that
\* frame's batch, and the image displayed for a frame is the one that
\* frame's acquire returned.
PresentAfterRenderFinished ==
  \A d \in gpuHistory.displayed :
    /\ d[1] \in gpuHistory.completed
    /\ d[2]

\* C4 witness: two frames have been displayed.
PresentAfterRenderFinishedWitness ==
  \E d, e \in gpuHistory.displayed : d[1] = 1 /\ e[1] = 2

\* C5 (as claimed): every fence wait at the start of drawFrame eventually
\* returns.
FenceWaitEventuallyReturns ==
  At("vkWaitForFences") ~> At("vkResetFences")

\* The fence-related calls made so far.
FenceCalls ==
  SelectSeq(log, LAMBDA c :
    c \in {"vkWaitForFences", "vkResetFences", "vkQueueSubmit"})

\* C6: the fence calls strictly alternate wait, reset, submit (one submit
\* carrying the fence between a reset and the next wait), and after N
\* completed drawFrame calls exactly N waits, N resets and N submits have
\* been made.
FenceWaitResetAlternate ==
  /\ \A i \in 1..Len(FenceCalls) :
       FenceCalls[i] =
         << "vkWaitForFences", "vkResetFences", "vkQueueSubmit" >>[((i - 1) % 3) + 1]
  /\ pc = "mainLoop" => Len(FenceCalls) = 3 * frame

\* C6 witness: two drawFrame calls have completed.
FenceWaitResetAlternateWitness ==
  pc = "mainLoop" /\ frame = 2

\* C7 (as claimed): a non-success result from acquire, submit or present is
\* fatal: once one of the three calls has returned it, drawFrame has raised.
NonSuccessIsFatal ==
  \A c \in {"acquire", "submit", "present"} :
    res[c] \notin {NoResult, VK_SUCCESS} => pc = "failed"

\* The objects destroyed so far by cleanup (the shader modules are destroyed
\* by createGraphicsPipeline itself).
CleanupDestroyed == SelectSeq(destroyed, LAMBDA o : o[1] # "shaderModule")

\* C8: cleanup starts only after vkDeviceWaitIdle has returned, and while
\* objects are being destroyed no submitted batch and no present request is
\* pending.
IdleBeforeDestroy ==
  (pc \in {"cleanup", "done"} \/ CleanupDestroyed # << >>) =>
     /\ log # << >>
     /\ log[Len(log)] = "vkDeviceWaitIdle"
     /\ graphicsQueue_ = << >>
     /\ presentQueue_ = << >>

\* C8 witness: objects are being destroyed after frames were submitted and
\* presented.
IdleBeforeDestroyWitness ==
  /\ pc = "cleanup"
  /\ CleanupDestroyed # << >>
  /\ frame >= 2
  /\ gpuHistory.displayed # {}

\* The acquire, submit, present and device-idle calls made so far.
FrameCalls ==
  SelectSeq(log, LAMBDA c :
    c \in {"vkAcquireNextImageKHR", "vkQueueSubmit", "vkQueuePresentKHR",
           "vkDeviceWaitIdle"})

RECURSIVE Sequences3(_)
\* k acquire/submit/present sequences
Sequences3(k) ==
  IF k = 0 THEN << >>
  ELSE Sequences3(k - 1)
         \o << "vkAcquireNextImageKHR", "vkQueueSubmit", "vkQueuePresentKHR" >>

\* C9: with every backend call succeeding, the calls made are always a
\* prefix of acquire/submit/present sequences, one per loop iteration, in
\* that order; once the loop has been left after k iterations and the
\* device-idle wait has returned, exactly k such sequences followed by
\* exactly one device-idle wait have been made, and nothing is added to them
\* during teardown.
FramesThenIdleThenTeardown ==
  ~anyFailure =>
     /\ pc \notin {"cleanup", "done"} =>
          /\ CleanupDestroyed = << >>
          /\ Len(FrameCalls) <= 3 * frame
          /\ Len(FrameCalls) >= 3 * (frame - 1)
          /\ FrameCalls = SubSeq(Sequences3(frame), 1, Len(FrameCalls))
          /\ pc \in {"mainLoop", "vkDeviceWaitIdle"} =>
               FrameCalls = Sequences3(frame)
     /\ pc \in {"cleanup", "done"} =>
          FrameCalls = Append(Sequences3(frame), "vkDeviceWaitIdle")

\* C9 witness: the loop ran three iterations with every call succeeding, was
\* left, and teardown has finished.
FramesThenIdleThenTeardownWitness ==
  /\ pc = "done"
  /\ ~anyFailure
  /\ frame = 3

\* The objects of initVulkan that cleanup destroys by a call of their own
\* (the command buffer goes with its pool, the shader modules are destroyed
\* by createGraphicsPipeline).
Explicit(o) == o[1] \notin {"commandBuffer", "shaderModule"}

\* o has been destroyed
Destroyed(o) == o \in Range(destroyed)

\* C10 (as claimed): for every pair of objects created by initVulkan, the
\* one created later is destroyed earlier.
StrictReverseCreationOrder ==
  \A i, j \in 1..Len(created) :
    (i < j /\ Explicit(created[i]) /\ Explicit(created[j])
       /\ Destroyed(created[i])) =>
      /\ Destroyed(created[j])
      /\ Pos(destroyed, created[j]) < Pos(destroyed, created[i])

\* The group of the claim's list an object belongs to.
Group(o) ==
  IF o[1] \in {"imageAvailableSemaphore", "renderFinishedSemaphore",
               "inFlightFence"}
    THEN "syncObjects"
    ELSE o[1]

RECURSIVE Groups(_)
\* the groups of a sequence of objects, each run of one group named once
Groups(s) ==
  IF s = << >> THEN << >>
  ELSE LET rest == Groups(SubSeq(s, 1, Len(s) - 1))
           g == Group(s[Len(s)])
       IN IF rest # << >> /\ rest[Len(rest)] = g THEN rest
          ELSE Append(rest, g)

\* C10 (amended): the later-created object is destroyed earlier for every
\* pair of objects of different groups other than the pair (debug messenger,
\* surface); objects of one group (the three sync objects, the framebuffers,
\* the image views) are destroyed in creation order; the debug messenger,
\* created before the surface, is destroyed before it; and a finished
\* teardown has gone through the groups in the order sync objects, command
\* pool, framebuffers, pipeline, pipeline layout, render pass, image views,
\* swapchain, device, debug messenger, surface, instance.
GroupReverseCreationOrder ==
  /\ pc \notin {"cleanup", "done"} => CleanupDestroyed = << >>
  /\ CleanupDestroyed = << >> \/ \A i, j \in 1..Len(created) :
       (i < j /\ Explicit(created[i]) /\ Explicit(created[j])) =>
         LET a == created[i]
             b == created[j]
         IN IF Group(a) = Group(b)
                 \/ (a[1] = "debugMessenger" /\ b[1] = "surface")
              THEN Destroyed(b) =>
                     /\ Destroyed(a)
                     /\ Pos(destroyed, a) < Pos(destroyed, b)
              ELSE Destroyed(a) =>
                     /\ Destroyed(b)
                     /\ Pos(destroyed, b) < Pos(destroyed, a)
  /\ pc = "done" =>
       Groups(CleanupDestroyed) =
         << "syncObjects", "commandPool", "framebuffer", "pipeline",
            "pipelineLayout", "renderPass", "imageView", "swapChain",
            "device", "debugMessenger", "surface", "instance" >>

\* C10 witness: teardown of a swapchain of at least two images has finished
\* and every object cleanup destroys is destroyed.
GroupReverseCreationOrderWitness ==
  /\ pc = "done"
  /\ swapChainImages_ >= 2
  /\ \A i \in 1..Len(created) : Explicit(created[i]) => Destroyed(created[i])

\* ------------------------------------- claims on device and swapchain setup

\* the call fn of initVulkan has returned
Returned(fn) ==
  pc = "mainLoop" \/ (pc \in {"initVulkan", "failed"} /\ step > Pos(initVulkan, fn))

\* the call fn of initVulkan has raised
Raised(fn) == pc = "failed" /\ initVulkan[step] = fn

\* position of the first TRUE in a sequence of booleans, 0 if there is none
FirstTrue(s) ==
  IF \E i \in 1..Len(s) : s[i]
    THEN CHOOSE i \in 1..Len(s) : s[i] /\ \A j \in 1..(i - 1) : ~s[j]
    ELSE 0

\* C11: first suitable device wins.  Once the loop of pickPhysicalDevice
\* over a non-empty device list is over, physicalDevice_ names the device at
\* the position of the first TRUE among the isDeviceSuitable results (never a
\* later suitable one); pickPhysicalDevice returns only with such a device,
\* and it raises when every device of the list was found unsuitable.
FirstSuitableDevicePicked ==
  /\ (pc \in {"initVulkan", "failed"}
        /\ initVulkan[step] = "pickPhysicalDevice" /\ at = "check"
        /\ deviceCount > 0)
       => /\ physicalDevice_ = FirstTrue(suitability)
          /\ FirstTrue(suitability) = 0 => Len(suitability) = deviceCount
          /\ pc = "failed" => FirstTrue(suitability) = 0
  /\ Returned("pickPhysicalDevice")
       => /\ FirstTrue(suitability) # 0
          /\ physicalDevice_ = FirstTrue(suitability)
  /\ (Raised("pickPhysicalDevice") /\ deviceCount > 0)
       => /\ \A i \in 1..Len(suitability) : ~suitability[i]
          /\ Len(suitability) = deviceCount
          /\ physicalDevice_ = VK_NULL_HANDLE

\* C11 witness: pickPhysicalDevice has returned with the second device, the
\* first one having been found unsuitable.
FirstSuitableDevicePickedWitness ==
  /\ Returned("pickPhysicalDevice")
  /\ suitability = <<FALSE, TRUE>>
  /\ physicalDevice_ = Len(suitability)

\* C12: two distinct selection failures.  With zero devices enumerated
\* pickPhysicalDevice raises the no-device error before any isDeviceSuitable
\* call; with devices but none suitable it raises the different
\* no-suitable-device error; it raises in no other case, and after either
\* error no logical device exists.
SelectionFailuresDistinct ==
  /\ NoDeviceError # NoSuitableDeviceError
  /\ Raised("pickPhysicalDevice")
       => \/ /\ deviceCount = 0
             /\ error = NoDeviceError
             /\ suitability = << >>
          \/ /\ deviceCount > 0
             /\ error = NoSuitableDeviceError
             /\ Len(suitability) = deviceCount
             /\ \A i \in 1..Len(suitability) : ~suitability[i]
  /\ error \in {NoDeviceError, NoSuitableDeviceError}
       => /\ Raised("pickPhysicalDevice")
          /\ Obj("device", 0) \notin Range(created)
          /\ queueCreateInfos = << >>

\* C12 witness: zero devices were enumerated and the no-device error raised.
SelectionFailuresDistinctWitness ==
  /\ Raised("pickPhysicalDevice")
  /\ deviceCount = 0
  /\ error = NoDeviceError

\* least element of a non-empty set of numbers
Min(S) == CHOOSE x \in S : \A y \in S : x <= y

\* the indices (from 0) of the families of f that satisfy has
FamiliesWith(f, has(_)) == {i \in 0..(Len(f) - 1) : has(f[i + 1])}

HasGraphics(queueFamily) == queueFamily.graphics

HasPresent(queueFamily) == queueFamily.present

\* C13: lowest index wins.  Whenever findQueueFamilies has run on a list of
\* queue families, the graphics index it returns is the lowest index of a
\* family with the graphics capability, and the present index the lowest
\* index of a family that can present, among the families up to the one at
\* which the scan stops.
LowestIndexFamilies ==
  call.fn = "isDeviceSuitable" =>
    LET scanned == ScannedFamilies(call.families)
        graphics == FamiliesWith(scanned, HasGraphics)
        present == FamiliesWith(scanned, HasPresent)
    IN /\ call.indices.graphicsFamily # {}
            => call.indices.graphicsFamily = {Min(graphics)}
       /\ call.indices.presentFamily # {}
            => call.indices.presentFamily = {Min(present)}

\* C14: complete results are in range and right.  Whenever findQueueFamilies
\* has run on a list of queue families, a result with both indices set has
\* both below the family count, the graphics index naming a family with the
\* graphics capability and the present index a family that can present; and
\* the result lacks an index exactly when no family has the graphics
\* capability or no family can present.
CompleteIffBothExist ==
  call.fn = "isDeviceSuitable" =>
    LET f == call.families
        g == call.indices.graphicsFamily
        p == call.indices.presentFamily
        complete == g # {} /\ p # {}
    IN /\ Cardinality(g) <= 1 /\ Cardinality(p) <= 1
       /\ complete => /\ g \subseteq FamiliesWith(f, HasGraphics)
                      /\ p \subseteq FamiliesWith(f, HasPresent)
                      /\ \A i \in g \cup p : i < Len(f)
       /\ ~complete <=> \/ FamiliesWith(f, HasGraphics) = {}
                        \/ FamiliesWith(f, HasPresent) = {}

\* C14 witness: findQueueFamilies has returned a complete result with
\* different graphics and present indices.
CompleteIffBothExistWitness ==
  /\ call.fn = "isDeviceSuitable"
  /\ call.indices.graphicsFamily # {}
  /\ call.indices.presentFamily # {}
  /\ call.indices.graphicsFamily # call.indices.presentFamily

\* C15: one request per distinct family.  Once createLogicalDevice has
\* returned, the queue-creation requests name exactly the family indices
\* {graphics, present}, each once (one request when the two are equal, two
\* when they differ), and once retrieveQueues has returned, each family it
\* fetched queue 0 from is named by a request.
OneRequestPerUniqueFamily ==
  /\ (Returned("createLogicalDevice") /\ queueFamilies # << >>)
       => LET indices == findQueueFamilies(queueFamilies)
              unique == indices.graphicsFamily \cup indices.presentFamily
          IN /\ Len(queueCreateInfos) = Cardinality(unique)
             /\ Range(queueCreateInfos) = unique
             /\ \A i, j \in 1..Len(queueCreateInfos) :
                  queueCreateInfos[i] = queueCreateInfos[j] => i = j
  /\ (Returned("retrieveQueues") /\ queueFamilies # << >>)
       => (queues.graphics \cup queues.present) \subseteq Range(queueCreateInfos)

\* C16: requested image count.  Whenever createSwapChain has filled in
\* createInfo, minImageCount is the surface's minImageCount + 1, except that
\* it is maxImageCount when maxImageCount is nonzero and below
\* minImageCount + 1; (min 2, max 3) and (min 3, max 3) both give 3, and a
\* maxImageCount of 0 never clamps.
ImageCountClamped ==
  /\ call.fn = "vkCreateSwapchainKHR" =>
       LET min == call.capabilities.minImageCount
           max == call.capabilities.maxImageCount
       IN /\ createInfo.minImageCount =
               IF max # 0 /\ min + 1 > max THEN max ELSE min + 1
          /\ max = 0 => createInfo.minImageCount = min + 1
          /\ successCheck(call.result) => swapChain_ = createInfo.minImageCount
  /\ ImageCount([minImageCount |-> 2, maxImageCount |-> 3]) = 3
  /\ ImageCount([minImageCount |-> 3, maxImageCount |-> 3]) = 3

\* C16 witness: the swapchain has been created with the count clamped to a
\* nonzero maxImageCount.
ImageCountClampedWitness ==
  /\ call.fn = "vkCreateSwapchainKHR"
  /\ successCheck(call.result)
  /\ call.capabilities.maxImageCount # 0
  /\ call.capabilities.minImageCount + 1 > call.capabilities.maxImageCount
  /\ createInfo.minImageCount = call.capabilities.maxImageCount

\* v brought into lo..hi
Clamped(v, lo, hi) == IF v < lo THEN lo ELSE IF v > hi THEN hi ELSE v

\* C17: extent selection.  Whenever chooseSwapExtent has run, its result is
\* currentExtent whatever the framebuffer size when currentExtent's width is
\* not the all-bits-set value, and otherwise the framebuffer size with width
\* and height each brought into [minImageExtent, maxImageExtent], hence the
\* framebuffer size itself when that is within the bounds; createSwapChain
\* puts the result into createInfo.
ExtentChosen ==
  call.fn = "chooseSwapExtent" =>
    LET caps == call.capabilities
        lo == caps.minImageExtent
        hi == caps.maxImageExtent
    IN /\ caps.currentExtent.width # UINT32_MAX
            => call.result = caps.currentExtent
       /\ caps.currentExtent.width = UINT32_MAX
            => /\ call.result.width =
                    Clamped(call.window.width, lo.width, hi.width)
               /\ call.result.height =
                    Clamped(call.window.height, lo.height, hi.height)
               /\ call.result.width \in lo.width..hi.width
               /\ call.result.height \in lo.height..hi.height
               /\ (/\ call.window.width \in lo.width..hi.width
                   /\ call.window.height \in lo.height..hi.height)
                    => call.result = call.window
       /\ createInfo.imageExtent = call.result

\* C17 witness: currentExtent is the all-bits-set value and the framebuffer
\* is wider than maxImageExtent and lower than minImageExtent.
ExtentChosenWitness ==
  /\ call.fn = "chooseSwapExtent"
  /\ call.capabilities.currentExtent.width = UINT32_MAX
  /\ call.window.width > call.capabilities.maxImageExtent.width
  /\ call.window.height < call.capabilities.minImageExtent.height
  /\ call.result.width = call.capabilities.maxImageExtent.width
  /\ call.result.height = call.capabilities.minImageExtent.height

\* C18: sharing mode.  Whenever createSwapChain has filled in createInfo, it
\* asks for concurrent sharing exactly when the graphics and present family
\* indices differ, then with a family count of 2 and the list {graphics,
\* present}; with equal indices it asks for exclusive sharing with a family
\* count of 0 and no list.
SharingFollowsFamilies ==
  call.fn = "vkCreateSwapchainKHR" =>
    LET g == call.indices.graphicsFamily
        p == call.indices.presentFamily
    IN /\ g # p <=> createInfo.imageSharingMode = VK_SHARING_MODE_CONCURRENT
       /\ g # p => /\ createInfo.queueFamilyIndexCount = 2
                   /\ Len(createInfo.pQueueFamilyIndices) = 2
                   /\ {createInfo.pQueueFamilyIndices[1]} = g
                   /\ {createInfo.pQueueFamilyIndices[2]} = p
       /\ g = p => /\ createInfo.imageSharingMode = VK_SHARING_MODE_EXCLUSIVE
                   /\ createInfo.queueFamilyIndexCount = 0
                   /\ createInfo.pQueueFamilyIndices = << >>

\* C18 witness: the swapchain has been created with concurrent sharing.
SharingFollowsFamiliesWitness ==
  /\ call.fn = "vkCreateSwapchainKHR"
  /\ successCheck(call.result)
  /\ call.indices.graphicsFamily # call.indices.presentFamily
  /\ createInfo.imageSharingMode = VK_SHARING_MODE_CONCURRENT

\* the preferred surface format pair
PreferredFormat ==
  [format |-> VK_FORMAT_B8G8R8A8_SRGB,
   colorSpace |-> VK_COLOR_SPACE_SRGB_NONLINEAR_KHR]

\* what chooseSwapSurfaceFormat has to return on the list formats
StrictFormatResult(formats, result) ==
  IF PreferredFormat \in Range(formats)
    THEN result.ok /\ result.value = PreferredFormat
    ELSE ~result.ok /\ result.what = NoAcceptableFormatError

\* C19: strict format selection.  On every list of surface formats (the
\* empty one included) that createSwapChain might pass, and on the one it
\* does pass, chooseSwapSurfaceFormat returns the pair (8-bit BGRA
\* sRGB, non-linear sRGB) if the list contains it and otherwise raises the
\* no-acceptable-format error instead of returning another entry; when
\* createSwapChain gets that error, it raises it and no swapchain exists.
FormatSelectionStrict ==
  /\ InSetup("createSwapChain", "call") =>
       \A formats \in SeqsUpTo(SurfaceFormats, MaxFormats) :
         StrictFormatResult(formats, chooseSwapSurfaceFormat(formats))
  /\ call.fn = "chooseSwapSurfaceFormat" =>
       /\ StrictFormatResult(call.availableFormats, call.result)
       /\ call.result.ok =>
            /\ pc # "failed"
            /\ createInfo.imageFormat = VK_FORMAT_B8G8R8A8_SRGB
            /\ createInfo.imageColorSpace = VK_COLOR_SPACE_SRGB_NONLINEAR_KHR
       /\ ~call.result.ok =>
            /\ Raised("createSwapChain")
            /\ error = NoAcceptableFormatError
  /\ error = NoAcceptableFormatError =>
       /\ Raised("createSwapChain")
       /\ Obj("swapChain", 0) \notin Range(created)
       /\ swapChain_ = 0

\* C19 witness: the surface reports formats, none of them the preferred
\* pair, and createSwapChain has raised the no-acceptable-format error.
FormatSelectionStrictWitness ==
  /\ call.fn = "chooseSwapSurfaceFormat"
  /\ Len(call.availableFormats) = MaxFormats
  /\ PreferredFormat \notin Range(call.availableFormats)
  /\ Raised("createSwapChain")
  /\ error = NoAcceptableFormatError

\* what chooseSwapPresentMode has to return on the list modes
MailboxIfListed(modes, result) ==
  /\ result = VK_PRESENT_MODE_MAILBOX_KHR
       <=> VK_PRESENT_MODE_MAILBOX_KHR \in Range(modes)
  /\ result # VK_PRESENT_MODE_MAILBOX_KHR => result = VK_PRESENT_MODE_FIFO_KHR

\* C20: present mode selection.  On every list of present modes (the empty
\* one included) that createSwapChain might pass, and on the one it does
\* pass, chooseSwapPresentMode returns the mailbox mode exactly when
\* the list contains it and FIFO otherwise, and it never raises:
\* createSwapChain goes on with the mode returned.
MailboxElseFifo ==
  /\ InSetup("createSwapChain", "chooseSwapPresentMode") =>
       \A modes \in SeqsUpTo(PresentModes, MaxPresentModes) :
         MailboxIfListed(modes, chooseSwapPresentMode(modes))
  /\ call.fn = "chooseSwapPresentMode" =>
       /\ MailboxIfListed(call.availablePresentModes, call.result)
       /\ createInfo.presentMode = call.result
       /\ pc = "initVulkan"
       /\ error = NoError

\* C20 witness: mailbox is listed after another mode and has been chosen.
MailboxElseFifoWitness ==
  /\ call.fn = "chooseSwapPresentMode"
  /\ Len(call.availablePresentModes) = MaxPresentModes
  /\ call.availablePresentModes[1] = VK_PRESENT_MODE_IMMEDIATE_KHR
  /\ call.availablePresentModes[MaxPresentModes] = VK_PRESENT_MODE_MAILBOX_KHR
  /\ createInfo.presentMode = VK_PRESENT_MODE_MAILBOX_KHR

\* C21: suitability.  Whenever isDeviceSuitable has run on a device, it has
\* returned TRUE exactly when the device is a discrete GPU with geometry
\* shader support, every required device extension is among its available
\* ones, it reports at least one surface format and at least one present
\* mode, and findQueueFamilies found both a graphics and a present family.
SuitableIffAllHold ==
  call.fn = "isDeviceSuitable" =>
    (call.result <=>
       /\ call.device.deviceType = VK_PHYSICAL_DEVICE_TYPE_DISCRETE_GPU
       /\ call.device.geometryShader
       /\ \A ext \in deviceExts_ : ext \in call.device.extensions
       /\ call.device.hasFormats
       /\ call.device.hasPresentModes
       /\ call.indices.graphicsFamily # {}
       /\ call.indices.presentFamily # {})

\* C21 witness: a device that meets every condition has been found suitable.
SuitableIffAllHoldWitness ==
  /\ call.fn = "isDeviceSuitable"
  /\ call.result
  /\ call.device.hasFormats /\ call.device.hasPresentModes
  /\ VK_KHR_SWAPCHAIN_EXTENSION_NAME \in call.device.extensions

\* The objects the calls of initVulkan before the step-th one create
\* (n swapchain images).
RECURSIVE CreatedBefore(_, _)
CreatedBefore(k, n) ==
  IF k <= 1 THEN {}
  ELSE CreatedBefore(k - 1, n) \cup Range(Creates(initVulkan[k - 1], n))

\* A call of initVulkan got a non-success result (or raised by itself) and no
\* frame has been started since.
SetupFailed == anyFailure /\ log = << >>

\* C22: fail-fast setup.  When a creation step of initVulkan fails, the
\* failure is raised at that step: control has left run() with step still at
\* the failing call, every object of the earlier calls exists and none of a
\* later call, no frame was ever started, nothing was destroyed by cleanup();
\* and from a failed run no further step is ever taken (no later call, no
\* retry, no main loop, no cleanup).
FailFastSetup ==
  /\ [](SetupFailed =>
          /\ pc = "failed"
          /\ frame = 0
          /\ step \in 1..Len(initVulkan)
          /\ initVulkan[step] \in CanThrow
          /\ CreatedBefore(step, swapChainImages_) \subseteq Range(created)
          /\ Range(created) \subseteq
               CreatedBefore(step + 1, swapChainImages_)
          /\ CleanupDestroyed = << >>)
  /\ [][~SetupFailed]_vars

\* C22 witness: createSwapChain has failed after the device was created.
FailFastSetupWitness ==
  /\ SetupFailed
  /\ pc = "failed"
  /\ initVulkan[step] = "createSwapChain"
  /\ Obj("device", 0) \in Range(created)
  /\ Obj("swapChain", 0) \notin Range(created)

\* The calls drawFrame has made so far, over all frames.
DrawLog == SelectSeq(log, LAMBDA c : c # "vkDeviceWaitIdle")

\* The order the claim gives for one frame.
FrameOrder ==
  << "vkWaitForFences", "vkResetFences", "vkAcquireNextImageKHR",
     "vkResetCommandBuffer", "recordCommandBuffer", "vkQueueSubmit",
     "vkQueuePresentKHR" >>

\* C23: frame step order.  The calls of every drawFrame are, in this order
\* and each at most once per frame: fence wait, fence reset, image acquire,
\* command-buffer reset, command recording, queue submit, present.  The k-th
\* frame's calls are entries 7(k-1)+1 .. 7k of the call history; between
\* frames the history holds whole frames only; and at the submit the command
\* buffer has been reset and recorded again in this frame.
FrameStepOrder ==
  /\ \A i \in 1..Len(DrawLog) :
       DrawLog[i] = FrameOrder[((i - 1) % Len(FrameOrder)) + 1]
  /\ Len(DrawLog) <= Len(FrameOrder) * frame
  /\ frame > 0 => Len(DrawLog) >= Len(FrameOrder) * (frame - 1)
  /\ pc \in {"mainLoop", "vkDeviceWaitIdle", "cleanup", "done"} =>
       Len(DrawLog) = Len(FrameOrder) * frame
  /\ (pc = "drawFrame" /\ Len(DrawLog) > 0
        /\ DrawLog[Len(DrawLog)] = "recordCommandBuffer") =>
       /\ commandBuffer_.state = "executable"
       /\ commandBuffer_.framebuffer = imageIndex

\* C23 witness: the second frame has made all its calls.
FrameStepOrderWitness ==
  /\ pc = "mainLoop"
  /\ frame = 2
  /\ Len(DrawLog) = 2 * Len(FrameOrder)

\* C24: the CPU thread blocks only at the fence wait.  At every other call of
\* drawFrame (fence reset, image acquire, command-buffer reset, recording,
\* submit, present) the call can return at once, whatever the GPU and the
\* presentation engine have or have not done yet.
OnlyFenceWaitBlocks ==
  /\ At("vkResetFences") => ENABLED ResetFences
  /\ At("vkAcquireNextImageKHR") => ENABLED AcquireNextImage
  /\ At("vkResetCommandBuffer") => ENABLED ResetCommandBuffer
  /\ At("recordCommandBuffer") => ENABLED RecordCommandBuffer
  /\ At("vkQueueSubmit") => ENABLED QueueSubmit
  /\ At("vkQueuePresentKHR") => ENABLED QueuePresent

\* Number of times the call fn appears in the call history.
Calls(fn) == Len(SelectSeq(log, LAMBDA c : c = fn))

\* The CPU thread is between frames or past the loop: where the close signal
\* is read (loop head) and where the device-idle wait and cleanup run.
OutsideFrame == pc \in {"mainLoop", "vkDeviceWaitIdle", "cleanup", "done"}

\* C25 as stated: no mid-frame cancellation.  The close signal is read only
\* at the loop head, and whenever the CPU thread is not inside drawFrame
\* every frame that passed its fence wait has issued its present request: no
\* frame is ever left between acquire and present.
FrameNeverAbandoned ==
  /\ (ENABLED MainLoopExit \/ ENABLED MainLoopIterate) =>
       pc = "mainLoop" /\ step = 0
  /\ pc # "drawFrame" => Calls("vkQueuePresentKHR") = Calls("vkWaitForFences")

\* C25 amended: the close signal is read only at the loop head; at the loop
\* head, at the device-idle wait and during cleanup every frame that passed
\* its fence wait has issued its present request; and a frame is left
\* between acquire and present only when its vkQueueSubmit fails, which ends
\* the run at that call (the loop head is never reached again).
FrameAbandonedOnlyBySubmitFailure ==
  /\ (ENABLED MainLoopExit \/ ENABLED MainLoopIterate) =>
       pc = "mainLoop" /\ step = 0
  /\ OutsideFrame => Calls("vkQueuePresentKHR") = Calls("vkWaitForFences")
  /\ (pc # "drawFrame"
        /\ Calls("vkQueuePresentKHR") # Calls("vkWaitForFences")) =>
       /\ pc = "failed"
       /\ res.submit \notin {VK_SUCCESS, NoResult}
       /\ log[Len(log)] = "vkQueueSubmit"
       /\ Calls("vkWaitForFences") = Calls("vkQueuePresentKHR") + 1

\* C25 witness: the loop has ended after two frames, both presented, and the
\* device-idle wait is next.
FrameAbandonedOnlyBySubmitFailureWitness ==
  /\ pc = "vkDeviceWaitIdle"
  /\ frame = 2
  /\ Calls("vkAcquireNextImageKHR") = 2
  /\ Calls("vkQueuePresentKHR") = 2

\* initVulkan has got past createFrameBuffers.
FramebuffersBuilt ==
  \/ pc = "mainLoop"
  \/ /\ pc \in {"initVulkan", "failed"}
     /\ step > Pos(initVulkan, "createFrameBuffers")

\* C26: list alignment.  Once createFrameBuffers has returned, the image-view
\* list, the framebuffer list and the swapchain image list have the same
\* length; view i is a view of swapchain image i; and framebuffer i has view
\* i as its only attachment and the extent the swapchain was created with as
\* its width and height.
ListsAligned ==
  /\ FramebuffersBuilt =>
       /\ Len(swapChainImageViews_) = swapChainImages_
       /\ Len(swapChainFramebuffers_) = swapChainImages_
       /\ swapChainImages_ = swapChain_
       /\ \A i \in 1..swapChainImages_ :
            /\ swapChainImageViews_[i].image = {i - 1}
            /\ swapChainFramebuffers_[i].attachments = << i - 1 >>
            /\ swapChainFramebuffers_[i].width = swapChainExtent_.width
            /\ swapChainFramebuffers_[i].height = swapChainExtent_.height
  /\ (pc = "initVulkan" /\ initVulkan[step] = "createSwapChain"
        /\ at = "return") =>
       createInfo.imageExtent = swapChainExtent_

\* C26 witness: initVulkan has succeeded with two swapchain images and a
\* swapchain extent that is not square.
ListsAlignedWitness ==
  /\ pc = "mainLoop"
  /\ swapChainImages_ = 2
  /\ Len(swapChainFramebuffers_) = 2
  /\ swapChainExtent_.width # swapChainExtent_.height

\* The kinds of object created from the logical device.
DeviceChildren ==
  {"imageAvailableSemaphore", "renderFinishedSemaphore", "inFlightFence",
   "commandPool", "commandBuffer", "framebuffer", "pipeline", "pipelineLayout",
   "renderPass", "imageView", "swapChain", "shaderModule"}

\* <<c, p>>: an object of kind c is built on (and refers to) one of kind p.
DependsOn ==
  {<<"imageView", "swapChain">>, <<"framebuffer", "imageView">>,
   <<"framebuffer", "renderPass">>, <<"pipeline", "pipelineLayout">>,
   <<"pipeline", "renderPass">>, <<"commandBuffer", "commandPool">>}
  \cup {<<c, "device">> : c \in DeviceChildren}

\* The object still exists: created and not destroyed (the command buffer is
\* freed with its pool).
Live(o) ==
  /\ o \in Range(created)
  /\ o \notin Range(destroyed)
  /\ ~(o[1] = "commandBuffer" /\ Obj("commandPool", 0) \in Range(destroyed))

\* C27: dependency-safe teardown.  In every state no live object depends on
\* a destroyed one: image views go before the swapchain, framebuffers before
\* the image views and the render pass, the pipeline before its layout and
\* the render pass, and the device only after every object created from it.
NoLiveObjectOnDestroyed ==
  \A o \in Range(created), q \in Range(destroyed) :
    <<o[1], q[1]>> \in DependsOn => ~Live(o)

\* C27 witness: cleanup has destroyed the swapchain and is about to destroy
\* the device.
NoLiveObjectOnDestroyedWitness ==
  /\ pc = "cleanup"
  /\ Obj("swapChain", 0) \in Range(destroyed)
  /\ Obj("imageView", 1) \in Range(destroyed)
  /\ Obj("device", 0) \notin Range(destroyed)

\* initVulkan is about to make the call fn.
About(fn) == pc = "initVulkan" /\ initVulkan[step] = fn

\* The call fn of initVulkan has returned.
Ran(fn) ==
  IF pc = "initVulkan" \/ (pc = "failed" /\ frame = 0)
    THEN step > Pos(initVulkan, fn)
    ELSE TRUE

\* Some object of this kind has been created.
Has(kind) == \E o \in Range(created) : o[1] = kind

\* The kinds of object a call of initVulkan reads when it runs.
Consumes(fn) ==
  CASE fn = "setupDebugMessenger" -> {"instance"}
    [] fn = "createSurface" -> {"instance"}
    [] fn = "pickPhysicalDevice" -> {"instance", "surface"}
    [] fn = "retrieveQueues" -> {"device"}
    [] fn = "createSwapChain" -> {"device", "surface"}
    [] fn = "retrieveSwapChainImages" -> {"device", "swapChain"}
    [] fn = "createImageViews" -> {"device", "swapChain"}
    [] fn = "createRenderPass" -> {"device", "swapChain"}
    [] fn = "createGraphicsPipelineLayout" -> {"device"}
    [] fn = "createGraphicsPipeline" -> {"device", "pipelineLayout", "renderPass"}
    [] fn = "createFrameBuffers" -> {"device", "renderPass", "imageView"}
    [] fn = "createCommandPool" -> {"device"}
    [] fn = "createCommandBuffer" -> {"device", "commandPool"}
    [] fn = "createSyncObjects" -> {"device"}
    [] OTHER -> {}

\* C28: dependency-respecting creation.  Whenever initVulkan is about to make
\* a call, every object the call consumes exists: the surface is created
\* after the instance, the device is selected after the surface and created
\* after the selection, queue retrieval and swapchain come after the device,
\* the image views after the swapchain images have been retrieved, the
\* render pass after the swapchain (whose creation fixes the format), the
\* pipeline after its layout and the render pass, the framebuffers after the
\* render pass and all image views, the command buffer after its pool; and
\* drawFrame runs only when the sync objects, the command buffer, the
\* framebuffers and the pipeline exist.
CreationRespectsDependencies ==
  /\ \A fn \in Range(initVulkan) :
       About(fn) => \A kind \in Consumes(fn) : Has(kind)
  /\ About("createLogicalDevice") => Ran("pickPhysicalDevice")
  /\ About("createImageViews") =>
       Ran("retrieveSwapChainImages") /\ swapChainImages_ = swapChain_
  /\ About("createFrameBuffers") =>
       \A i \in 0..(swapChainImages_ - 1) :
         Obj("imageView", i) \in Range(created)
  /\ pc = "drawFrame" =>
       /\ \A kind \in {"imageAvailableSemaphore", "renderFinishedSemaphore",
                       "inFlightFence", "commandBuffer", "pipeline"} :
            Has(kind)
       /\ swapChainImages_ > 0
       /\ \A i \in 0..(swapChainImages_ - 1) :
            Obj("framebuffer", i) \in Range(created)

\* C28 witness: the first drawFrame has started after a complete initVulkan.
CreationRespectsDependenciesWitness ==
  /\ pc = "drawFrame"
  /\ frame = 1
  /\ step = 1
  /\ Has("pipeline") /\ Has("framebuffer")

ImageIndexFromThisAcquire ==
  /\ (At("recordCommandBuffer") \/ At("vkQueueSubmit")
        \/ At("vkQueuePresentKHR")) =>
       /\ imageIndex \in 0..(swapChainImages_ - 1)
       /\ imageState[imageIndex] = [state |-> "acquired", frame |-> frame]
  /\ (At("vkQueueSubmit") \/ At("vkQueuePresentKHR")) =>
       commandBuffer_.framebuffer = imageIndex

\* The calls of initVulkan that read the family indices after the selection.
IndexReaders ==
  {"createLogicalDevice", "retrieveQueues", "createSwapChain",
   "createCommandPool"}

\* C31: queue family indices after selection.  Whenever one of
\* createLogicalDevice, retrieveQueues, createSwapChain and createCommandPool
\* runs, findQueueFamilies on the picked device gives both indices and the
\* very pair it gave inside the isDeviceSuitable call that picked the device;
\* every result such a call has recorded is that pair; and the command pool
\* is created for the family the graphics queue was fetched from.
IndicesStableAfterSelection ==
  /\ \A fn \in IndexReaders :
       About(fn) =>
         LET indices == findQueueFamilies(queueFamilies)
         IN /\ has_value(indices.graphicsFamily)
            /\ has_value(indices.presentFamily)
            /\ indices = suitableIndices
  /\ call.fn \in {"findQueueFamilies", "vkCreateSwapchainKHR"} =>
       call.indices = suitableIndices
  /\ Has("commandPool") =>
       /\ commandPool_.queueFamilyIndex = suitableIndices.graphicsFamily
       /\ commandPool_.queueFamilyIndex = queues.graphics

\* C31 witness: the command pool exists on a device whose graphics and
\* present families differ.
IndicesStableAfterSelectionWitness ==
  /\ Has("commandPool")
  /\ commandPool_.queueFamilyIndex # {}
  /\ suitableIndices.graphicsFamily # suitableIndices.presentFamily

\* How many times the object has been destroyed.
TimesDestroyed(o) == Len(SelectSeq(destroyed, LAMBDA d : d = o))

\* C32: teardown completeness.  Nothing is ever destroyed twice or without
\* having been created, and neither a swapchain image nor the command buffer
\* is ever destroyed by itself; when cleanup has finished, every object
\* initVulkan created has been destroyed exactly once, except the command
\* buffer, whose pool has been destroyed.
TeardownComplete ==
  /\ \A i \in 1..Len(destroyed) :
       /\ TimesDestroyed(destroyed[i]) = 1
       /\ destroyed[i] \in Range(created)
       /\ destroyed[i][1] \notin {"swapChainImage", "commandBuffer"}
  /\ pc = "done" =>
       /\ \A i \in 1..Len(created) :
            IF created[i][1] = "commandBuffer"
              THEN TimesDestroyed(Obj("commandPool", 0)) = 1
              ELSE TimesDestroyed(created[i]) = 1
       /\ Has("commandBuffer") /\ Has("inFlightFence") /\ Has("instance")
       /\ Len(destroyed) = Len(created) - 1

\* C32 witness: cleanup has finished on a run with two swapchain images.
TeardownCompleteWitness ==
  /\ pc = "done"
  /\ swapChainImages_ = 2
  /\ TimesDestroyed(Obj("framebuffer", 1)) = 1
  /\ TimesDestroyed(Obj("instance", 0)) = 1

\* The close-requested signal is true and stays true: the loop starts no
\* further frame (glfwWindowShouldClose answers true at every later read).
CloseRequested == frame = MaxFrames

\* C33: termination.  Once the close signal is and stays true, the run comes
\* to its end: the frame in progress finishes, the loop exits, the
\* device-idle wait returns and cleanup completes (or a raised failure has
\* ended the run before), given that the GPU and the presentation engine
\* eventually do every operation whose semaphore waits are satisfied.
TerminatesAfterClose == CloseRequested ~> (pc \in {"done", "failed"})

====
